---- MODULE Spec2Model ----
(***************************************************************************)
(* A model of the session-aware orchestration core of smart-farm-assistant: *)
(* the session store (chat_memory.py), the lifecycle manager                *)
(* (session_manager.py) and the request pipeline (server.py, asr.py).       *)
(*                                                                          *)
(* The store is a record of the module globals of chat_memory.py plus the   *)
(* directory db/chat_sessions.  Every function of chat_memory.py is a pure  *)
(* operator from a store to a store (and a return value); the actions       *)
(* compose these operators exactly as the code calls them.                  *)
(***************************************************************************)
EXTENDS Integers, Sequences, FiniteSets, TLC

\* ---------------------------------------------------------------- bounds
\* The clock counts days; it can be advanced up to MaxClock.
MaxClock == 3
\* Total number of add_message calls in one behaviour.
MaxAppends == 3
\* Number of session IDs the store is modelled for.
NumSessions == 3

\* ------------------------------------------------------------------ data
\* A session ID is a string; it is modelled as the sequence of its parts, so
\* that the path functions below can be modelled by concatenation.
Names == <<"s1", "s2", "s3", "s4", "s5", "s6">>

SessionIds == {<<Names[i]>> : i \in 1..NumSessions}

\* The session the single-session request sequences are about.
CoreIds == {<<Names[1]>>}

Roles == {"User", "Assistant"}

Texts == {<<"q">>}

\* datetime.isoformat() / datetime.fromisoformat(): a timestamp is stored as
\* a string and parsed back where it is compared.
isoformat(t) == <<"iso", t>>

fromisoformat(s) == s[2]

\* chat_memory.get_chat_log_path / get_metadata_path.
get_chat_log_path(sid) == sid \o <<".json">>

get_metadata_path(sid) == sid \o <<"_metadata", ".json">>

Paths == {get_chat_log_path(sid) : sid \in SessionIds} \cup {get_metadata_path(sid) : sid \in SessionIds}

\* None, for a metadata dict.
NoMeta == [present |-> FALSE, session_id |-> <<>>, created_at |-> isoformat(0), last_activity |-> isoformat(0), message_count |-> 0, user_messages |-> 0, assistant_messages |-> 0]

\* The content of a path of db/chat_sessions: nothing, a JSON list (a message
\* log) or a JSON object (a metadata dict).
NoFile == [kind |-> "none", log |-> <<>>, meta |-> NoMeta]

LogFile(h) == [kind |-> "log", log |-> h, meta |-> NoMeta]

MetaFile(m) == [kind |-> "meta", log |-> <<>>, meta |-> m]

\* A file that open() or json.load() raises on.
Unreadable == [kind |-> "unreadable", log |-> <<>>, meta |-> NoMeta]

\* os.path.exists
exists(s, path) == s.files[path].kind # "none"

\* ----------------------------------------------------------------- state
VARIABLES
    sessions,           \* _sessions: session ID -> reference to a list in heap (0: no key, -1: a dict)
    heap,               \* the list objects made for each session ID; a reference is an index
    session_metadata,   \* _session_metadata: session ID -> metadata dict (NoMeta: no key)
    contexts,           \* _contexts: session ID -> context dict
    files,              \* db/chat_sessions: path -> content
    clock,              \* datetime.now(), in days
    next_uuid,          \* the next value of uuid.uuid4()
    result,             \* what the last lookup or sweep returned
    appended,           \* history: the messages add_message was called with, per session
    evicted_at,         \* history: Len(appended) at the session's last eviction, -1 if never
    refs,               \* history: "lookup" once a lookup of the session manager named the ID
    threads,            \* the add_message calls in flight on the worker threads
    session_manager,    \* the SessionManager object and its cleanup thread
    vector_db           \* the SimpleVectorDB object of server.py

vars == <<sessions, heap, session_metadata, contexts, files, clock, next_uuid, result, appended, evicted_at, refs, threads, session_manager, vector_db>>

\* The store the functions of chat_memory.py work on.
store == [sessions |-> sessions, heap |-> heap, session_metadata |-> session_metadata, contexts |-> contexts, files |-> files]

SetStore(s) ==
    /\ sessions' = s.sessions
    /\ heap' = s.heap
    /\ session_metadata' = s.session_metadata
    /\ contexts' = s.contexts
    /\ files' = s.files

\* --------------------------------------------------------- chat_memory.py
\* A new list object holding h, bound to _sessions[sid].
new_list(s, sid, h) == [s EXCEPT !.heap[sid] = Append(@, h), !.sessions[sid] = Len(s.heap[sid]) + 1]

save_session_metadata(s, sid) ==
    IF s.session_metadata[sid].present
    THEN [s EXCEPT !.files[get_metadata_path(sid)] = MetaFile(s.session_metadata[sid])]
    ELSE s

\* t_created, t_activity: the two reads of datetime.now().
create_session_metadata(s, sid, t_created, t_activity) ==
    LET metadata == [present |-> TRUE, session_id |-> sid, created_at |-> isoformat(t_created), last_activity |-> isoformat(t_activity), message_count |-> 0, user_messages |-> 0, assistant_messages |-> 0]
    IN  save_session_metadata([s EXCEPT !.session_metadata[sid] = metadata], sid)

\* A variant that answers from memory and never reads the record.
load_session_metadata_cached(s, sid) == [st |-> s, ret |-> s.session_metadata[sid]]

load_session_metadata(s, sid) ==
    LET path == get_metadata_path(sid)
        s1 == IF exists(s, path) THEN [s EXCEPT !.session_metadata[sid] = s.files[path].meta] ELSE s
    IN  [st |-> s1, ret |-> s1.session_metadata[sid]]

\* A variant that stamps the activity and forgets to count the message.
update_session_activity_uncounted(s, sid, tm) ==
    LET s1 == IF ~s.session_metadata[sid].present THEN create_session_metadata(s, sid, tm[4], tm[5]) ELSE s
    IN  save_session_metadata([s1 EXCEPT !.session_metadata[sid].last_activity = isoformat(tm[6])], sid)

\* A variant that stamps the activity with the time the session was created.
update_session_activity_backdated(s, sid, tm) ==
    LET s1 == IF ~s.session_metadata[sid].present THEN create_session_metadata(s, sid, tm[4], tm[5]) ELSE s
    IN  save_session_metadata([s1 EXCEPT !.session_metadata[sid].last_activity = s1.session_metadata[sid].created_at, !.session_metadata[sid].message_count = @ + 1], sid)

\* tm: the reads of datetime.now() of one add_message call, in call order.
update_session_activity(s, sid, tm) ==
    LET s1 == IF ~s.session_metadata[sid].present THEN create_session_metadata(s, sid, tm[4], tm[5]) ELSE s
        s2 == [s1 EXCEPT !.session_metadata[sid].last_activity = isoformat(tm[6]), !.session_metadata[sid].message_count = @ + 1]
    IN  save_session_metadata(s2, sid)

\* json.load returns whatever the path holds: a list for a message log, a dict
\* for a metadata record.
get_history(s, sid, tm) ==
    IF s.sessions[sid] # 0
    THEN [st |-> s, ret |-> s.sessions[sid]]
    ELSE LET path == get_chat_log_path(sid)
             loaded == IF s.files[path].kind = "log" THEN new_list(s, sid, s.files[path].log) ELSE [s EXCEPT !.sessions[sid] = -1]
             s1 == IF exists(s, path)
                   THEN load_session_metadata(loaded, sid).st
                   ELSE create_session_metadata(s, sid, tm[1], tm[2])
             \* _sessions is a defaultdict(list)
             s2 == IF s1.sessions[sid] = 0 THEN new_list(s1, sid, <<>>) ELSE s1
         IN  [st |-> s2, ret |-> s2.sessions[sid]]

add_role_count(s, sid, role) ==
    IF role = "User" THEN [s EXCEPT !.session_metadata[sid].user_messages = @ + 1]
    ELSE IF role = "Assistant" THEN [s EXCEPT !.session_metadata[sid].assistant_messages = @ + 1]
    ELSE s

\* history.append raises AttributeError on a dict: the call ends there.
add_message(s, sid, role, message, tm, uuid) ==
    LET g == get_history(s, sid, tm)
        history == g.ret
        message_data == [role |-> role, message |-> message, timestamp |-> isoformat(tm[3]), message_id |-> uuid]
        s1 == [g.st EXCEPT !.heap[sid][history] = Append(@, message_data), !.sessions[sid] = history]
        s2 == update_session_activity(s1, sid, tm)
        s3 == save_session_metadata(add_role_count(s2, sid, role), sid)
    IN  IF history = -1 THEN g.st
        ELSE [s3 EXCEPT !.files[get_chat_log_path(sid)] = LogFile(s3.heap[sid][history])]

\* The returned dict carries the session_id it was asked for; None is NoMeta.
get_session_stats(s, sid) ==
    LET l == load_session_metadata(s, sid)
    IN  [st |-> l.st, ret |-> IF l.ret.present THEN [l.ret EXCEPT !.session_id = sid] ELSE NoMeta]

\* str.endswith("_metadata.json") and str.replace(".json", "") on a file name.
endswith_metadata_json(path) == Len(path) >= 2 /\ path[Len(path) - 1] = "_metadata" /\ path[Len(path)] = ".json"

replace_json(name) == SelectSeq(name, LAMBDA part : part # ".json")

\* Lines 115-116: glob.glob(os.path.join(CHAT_LOG_DIR, "*.json")) without the
\* names that end in _metadata.json, as a set; the order in which glob lists
\* the files is the caller's input.
session_files(s) == {path \in Paths : exists(s, path) /\ ~endswith_metadata_json(path)}

Min(a, b) == IF a <= b THEN a ELSE b

Range(seq) == {seq[i] : i \in DOMAIN seq}

Orders(S) == {o \in [1..Cardinality(S) -> S] : Range(o) = S}

\* A variant that leaves the list in the order of the listing.
unsorted(seq) == seq

\* list.sort(key=lambda x: x["last_activity"]): a stable sort, oldest first.
RECURSIVE insert_sorted(_, _)
insert_sorted(sorted, x) ==
    IF sorted = <<>> THEN <<x>>
    ELSE IF sorted[Len(sorted)].last_activity <= x.last_activity THEN Append(sorted, x)
    ELSE Append(insert_sorted(SubSeq(sorted, 1, Len(sorted) - 1), x), sorted[Len(sorted)])

RECURSIVE sort_by_last_activity(_)
sort_by_last_activity(seq) ==
    IF seq = <<>> THEN <<>>
    ELSE insert_sorted(sort_by_last_activity(SubSeq(seq, 1, Len(seq) - 1)), seq[Len(seq)])

\* Lines 118-133: the listed sessions that have a metadata file.
scan_sessions(s, listing) ==
    LET with_metadata == SelectSeq(listing, LAMBDA f : exists(s, get_metadata_path(replace_json(f))))
    IN  [i \in 1..Len(with_metadata) |->
            LET session_id == replace_json(with_metadata[i])
                metadata == s.files[get_metadata_path(session_id)].meta
            IN  [session_id |-> session_id, file_path |-> with_metadata[i], metadata_path |-> get_metadata_path(session_id), last_activity |-> fromisoformat(metadata.last_activity)]]

\* A variant that keeps every occurrence.
every_occurrence(seq, seen_ids) == seq

\* Lines 151-157: the first occurrence of every session, in order.
RECURSIVE unique_sessions(_, _)
unique_sessions(seq, seen_ids) ==
    IF seq = <<>> THEN <<>>
    ELSE IF seq[1].session_id \in seen_ids THEN unique_sessions(Tail(seq), seen_ids)
    ELSE <<seq[1]>> \o unique_sessions(Tail(seq), seen_ids \cup {seq[1].session_id})

\* Lines 135-157: the sessions one sweep removes, in removal order.
sessions_to_remove(session_info, max_age_days, max_sessions, now) ==
    LET cutoff_date == now - max_age_days
        aged == SelectSeq(session_info, LAMBDA x : x.last_activity < cutoff_date)
        excess_count == Len(session_info) - max_sessions
        excess == IF Len(session_info) > max_sessions THEN SubSeq(session_info, 1, Min(excess_count, Len(session_info))) ELSE <<>>
    IN  unique_sessions(aged \o excess, {})

\* os.remove of both files of one session (lines 163-166).
remove_session(s, session) == [s EXCEPT !.files[session.file_path] = NoFile, !.files[session.metadata_path] = NoFile]

RECURSIVE remove_sessions(_, _)
remove_sessions(s, seq) == IF seq = <<>> THEN s ELSE remove_sessions(remove_session(s, seq[1]), Tail(seq))

\* Lines 124-127: the scan opens and parses the metadata file of every listed
\* session and reads it as a dict, outside any try.
scan_raises(s, listing) ==
    \E i \in DOMAIN listing : exists(s, get_metadata_path(replace_json(listing[i]))) /\ s.files[get_metadata_path(replace_json(listing[i]))].kind # "meta"

\* listing: session_files in the order glob lists them; now: datetime.now().
\* raised: the scan raised, before anything was removed.
cleanup_old_sessions(s, max_age_days, max_sessions, listing, now) ==
    IF scan_raises(s, listing) THEN [st |-> s, ret |-> 0, removed |-> {}, raised |-> TRUE]
    ELSE LET session_info == sort_by_last_activity(scan_sessions(s, listing))
             doomed == sessions_to_remove(session_info, max_age_days, max_sessions, now)
         IN  [st |-> remove_sessions(s, doomed), ret |-> Len(doomed), removed |-> {doomed[i].session_id : i \in DOMAIN doomed}, raised |-> FALSE]

\* str.replace("_metadata.json", "") on a file name.
RECURSIVE replace_metadata_json(_)
replace_metadata_json(name) ==
    IF Len(name) < 2 THEN name
    ELSE IF name[1] = "_metadata" /\ name[2] = ".json" THEN replace_metadata_json(SubSeq(name, 3, Len(name)))
    ELSE <<name[1]>> \o replace_metadata_json(Tail(name))

\* glob.glob(os.path.join(CHAT_LOG_DIR, "*_metadata.json")), as a set.
metadata_files(s) == {path \in DOMAIN s.files : exists(s, path) /\ endswith_metadata_json(path)}

\* sorted(stats, key=lambda x: x["last_activity"], reverse=True): a stable
\* sort, latest first.
RECURSIVE insert_sorted_reverse(_, _)
insert_sorted_reverse(sorted, x) ==
    IF sorted = <<>> THEN <<x>>
    ELSE IF sorted[Len(sorted)].last_activity[2] >= x.last_activity[2] THEN Append(sorted, x)
    ELSE Append(insert_sorted_reverse(SubSeq(sorted, 1, Len(sorted) - 1), x), sorted[Len(sorted)])

RECURSIVE sorted_reverse(_)
sorted_reverse(seq) ==
    IF seq = <<>> THEN <<>>
    ELSE insert_sorted_reverse(sorted_reverse(SubSeq(seq, 1, Len(seq) - 1)), seq[Len(seq)])

\* listing: metadata_files in the order glob lists them.
get_all_session_stats(s, listing) ==
    sorted_reverse([i \in 1..Len(listing) |-> [s.files[listing[i]].meta EXCEPT !.session_id = replace_metadata_json(listing[i])]])

\* ------------------------------------------------------ session_manager.py
\* tm: the reads of datetime.now() of the call.  ret.none: the call returned
\* None; otherwise ret.artifact is the JSON document written to the export
\* directory.
export_session_data(s, sid, tm) ==
    LET g == get_history(s, sid, tm)
        history == g.st.heap[sid][g.ret]
        q == get_session_stats(g.st, sid)
        stats == q.ret
    IN  IF history = <<>> /\ ~stats.present
        THEN [st |-> q.st, ret |-> [none |-> TRUE, artifact |-> <<>>]]
        ELSE [st |-> q.st, ret |-> [none |-> FALSE, artifact |-> [session_id |-> sid, exported_at |-> isoformat(tm[3]), session_stats |-> stats, chat_history |-> history]]]

get_session_summary(s, sid, tm) ==
    LET q == get_session_stats(s, sid)
        stats == q.ret
        g == get_history(q.st, sid, tm)
        history == g.st.heap[sid][g.ret]
    IN  IF ~stats.present
        THEN [st |-> g.st, ret |-> [none |-> TRUE, summary |-> <<>>]]
        ELSE [st |-> g.st, ret |-> [none |-> FALSE, summary |-> [session_id |-> sid, created_at |-> stats.created_at, last_activity |-> stats.last_activity, duration_seconds |-> fromisoformat(stats.last_activity) - fromisoformat(stats.created_at), message_count |-> stats.message_count, user_messages |-> stats.user_messages, assistant_messages |-> stats.assistant_messages, messages |-> history]]]

\* ------------------------------------------------------------ environment
\* The values successive reads of datetime.now() return within one call that
\* starts at time t: the clock may advance by a day before any of the n reads.
TimeReads(t, n) == {[i \in 1..n |-> IF i >= k THEN Min(t + 1, MaxClock) ELSE t] : k \in 1..(n + 1)}

EmptyDict == [k \in {} |-> ""]

\* What a sweep may be called with.
AgeChoices == {1, 2}

CountChoices == 0..NumSessions

NoResult == [op |-> "none"]

\* refs: "none" (never referenced, or not since its eviction), "lookup" (only
\* by export_session_data and get_session_summary), "other".
Referenced(sid, how) == refs' = [refs EXCEPT ![sid] = IF how = "lookup" /\ @ \in {"none", "lookup"} THEN "lookup" ELSE "other"]

\* SimpleVectorDB.__init__
SimpleVectorDB == [documents |-> <<>>, embeddings |-> <<>>, doc_ids |-> <<>>]

\* SessionManager.__init__: no cleanup thread yet, stop flag cleared.  jobs are
\* the jobs registered with the scheduler of the schedule module, each the
\* hours left until it is due.
SessionManager == [cleanup_thread |-> "none", stop_cleanup |-> FALSE, jobs |-> <<>>]

\* The worker threads of the server (serve: ThreadPoolExecutor) that take part.
Threads == {"t1", "t2"}

\* A thread outside add_message.  pc is the statement it is at, history its
\* local variable (a reference), raised whether the call ended in an exception.
Idle == [pc |-> "idle", sid |-> <<>>, role |-> "", message_id |-> 0, history |-> 0, raised |-> FALSE]

NoThreads == [t \in Threads |-> Idle]

\* ------------------------------------------------------------------ Init
\* A new process on an empty db/chat_sessions.
Init ==
    /\ sessions = [sid \in SessionIds |-> 0]
    /\ heap = [sid \in SessionIds |-> <<>>]
    /\ session_metadata = [sid \in SessionIds |-> NoMeta]
    /\ contexts = [sid \in SessionIds |-> EmptyDict]
    /\ files = [path \in Paths |-> NoFile]
    /\ clock = 0
    /\ next_uuid = 1
    /\ result = NoResult
    /\ appended = [sid \in SessionIds |-> <<>>]
    /\ evicted_at = [sid \in SessionIds |-> -1]
    /\ refs = [sid \in SessionIds |-> "none"]
    /\ threads = NoThreads
    /\ session_manager = SessionManager
    /\ vector_db = SimpleVectorDB

\* ------------------------------------------- operations, one call at a time
AddMessage(sid, role) ==
    /\ next_uuid <= MaxAppends
    /\ \E tm \in TimeReads(clock, 6), message \in Texts :
        /\ SetStore(add_message(store, sid, role, message, tm, next_uuid))
        /\ clock' = tm[6]
    /\ next_uuid' = next_uuid + 1
    /\ result' = NoResult
    /\ appended' = IF sessions'[sid] = -1 THEN appended ELSE [appended EXCEPT ![sid] = Append(@, [role |-> role, message_id |-> next_uuid])]
    /\ Referenced(sid, "other")
    /\ UNCHANGED <<vector_db, session_manager, evicted_at, threads>>

GetHistory(sid) ==
    /\ \E tm \in TimeReads(clock, 2) :
        /\ SetStore(get_history(store, sid, tm).st)
        /\ clock' = tm[2]
    /\ result' = NoResult
    /\ Referenced(sid, "other")
    /\ UNCHANGED <<vector_db, session_manager, next_uuid, appended, evicted_at, threads>>

GetSessionStats(sid) ==
    /\ SetStore(get_session_stats(store, sid).st)
    /\ result' = NoResult
    /\ Referenced(sid, "other")
    /\ UNCHANGED <<vector_db, session_manager, clock, next_uuid, appended, evicted_at, threads>>

ExportSessionData(sid) ==
    /\ \E tm \in TimeReads(clock, 3) :
        LET e == export_session_data(store, sid, tm)
        IN  /\ SetStore(e.st)
            /\ result' = [op |-> "export_session_data", sid |-> sid, ret |-> e.ret]
            /\ clock' = tm[3]
    /\ Referenced(sid, "lookup")
    /\ UNCHANGED <<vector_db, session_manager, next_uuid, appended, evicted_at, threads>>

GetSessionSummary(sid) ==
    /\ \E tm \in TimeReads(clock, 2) :
        LET e == get_session_summary(store, sid, tm)
        IN  /\ SetStore(e.st)
            /\ result' = [op |-> "get_session_summary", sid |-> sid, ret |-> e.ret]
            /\ clock' = tm[2]
    /\ Referenced(sid, "lookup")
    /\ UNCHANGED <<vector_db, session_manager, next_uuid, appended, evicted_at, threads>>

\* One sweep, run to completion.  observed: the caller keeps the returned
\* count (the command line does; the scheduled job only logs it).
Cleanup(max_age_days, max_sessions, observed) ==
    /\ \E listing \in Orders(session_files(store)) :
        LET c == cleanup_old_sessions(store, max_age_days, max_sessions, listing, clock)
        IN  /\ SetStore(c.st)
            /\ result' = IF observed THEN [op |-> "cleanup_old_sessions", max_age_days |-> max_age_days, max_sessions |-> max_sessions, now |-> clock, before |-> files, ret |-> c.ret] ELSE NoResult
            /\ evicted_at' = [sid \in SessionIds |-> IF sid \in c.removed THEN Len(appended[sid]) ELSE evicted_at[sid]]
            /\ refs' = [sid \in SessionIds |-> IF sid \in c.removed THEN "none" ELSE refs[sid]]
    /\ UNCHANGED <<vector_db, session_manager, clock, next_uuid, appended, threads>>

\* A day passes.
Tick ==
    /\ clock < MaxClock
    /\ clock' = clock + 1
    /\ UNCHANGED <<vector_db, session_manager, sessions, heap, session_metadata, contexts, files, next_uuid, result, appended, evicted_at, refs, threads>>

\* The process ends and a new one starts: only db/chat_sessions survives.
Restart ==
    /\ sessions' = [sid \in SessionIds |-> 0]
    /\ heap' = [sid \in SessionIds |-> <<>>]
    /\ session_metadata' = [sid \in SessionIds |-> NoMeta]
    /\ contexts' = [sid \in SessionIds |-> EmptyDict]
    /\ result' = NoResult
    /\ threads' = NoThreads
    /\ UNCHANGED <<vector_db, session_manager, files, clock, next_uuid, appended, evicted_at, refs>>

\* ------------------------------------------------------------------ Spec
\* Requests against one session, one at a time, with sweeps, days passing and
\* process restarts in between.
Next ==
    \/ \E sid \in CoreIds, role \in Roles : AddMessage(sid, role)
    \/ \E sid \in CoreIds : GetHistory(sid)
    \/ \E sid \in CoreIds : GetSessionStats(sid)
    \/ \E max_age_days \in AgeChoices, max_sessions \in {0, 1} : Cleanup(max_age_days, max_sessions, FALSE)
    \/ Tick
    \/ Restart

Spec == Init /\ [][Next]_vars

\* What get_session_stats and get_history return in the current state.
StatsOf(sid) == get_session_stats(store, sid).ret

HistoryOf(sid) ==
    LET g == get_history(store, sid, [i \in 1..2 |-> clock])
    IN  g.st.heap[sid][g.ret]

MessageIds(h) == [i \in DOMAIN h |-> h[i].message_id]

CountRole(h, role) == Cardinality({i \in DOMAIN h : h[i].role = role})

\* C1: a session that starts unseen and has not been evicted reports, after N
\* add_message calls, message_count = N, a transcript of exactly the N
\* messages in append order, and per-role counts that equal the numbers of
\* User and Assistant messages appended.
C1_CountsMatchAppends ==
    \A sid \in SessionIds :
        (evicted_at[sid] = -1 /\ appended[sid] # <<>>) =>
            /\ StatsOf(sid).present
            /\ StatsOf(sid).message_count = Len(appended[sid])
            /\ MessageIds(HistoryOf(sid)) = MessageIds(appended[sid])
            /\ [i \in DOMAIN HistoryOf(sid) |-> HistoryOf(sid)[i].role] = [i \in DOMAIN appended[sid] |-> appended[sid][i].role]
            /\ StatsOf(sid).user_messages = CountRole(appended[sid], "User")
            /\ StatsOf(sid).assistant_messages = CountRole(appended[sid], "Assistant")
            /\ StatsOf(sid).user_messages + StatsOf(sid).assistant_messages = StatsOf(sid).message_count

\* C1 witness: three appends of both roles, after a restart, never evicted.
C1_Witness ==
    \E sid \in CoreIds :
        /\ evicted_at[sid] = -1
        /\ Len(appended[sid]) = 3
        /\ CountRole(appended[sid], "User") = 2
        /\ CountRole(appended[sid], "Assistant") = 1
        /\ sessions[sid] = 0
        /\ StatsOf(sid).message_count = 3

\* C9: after a sweep has evicted a session no evicted data comes back: the
\* transcript holds exactly the messages appended since the eviction (none, or
\* the one of a later add_message), the stats are None while the session has
\* not been referenced again, stats that exist count only the messages
\* appended since, and the context is empty.
C9_NoEvictedDataComesBack ==
    \A sid \in SessionIds :
        evicted_at[sid] >= 0 =>
            LET fresh == SubSeq(appended[sid], evicted_at[sid] + 1, Len(appended[sid]))
            IN  /\ MessageIds(HistoryOf(sid)) = MessageIds(fresh)
                /\ refs[sid] = "none" => ~StatsOf(sid).present
                /\ StatsOf(sid).present => StatsOf(sid).message_count = Len(fresh)
                /\ DOMAIN contexts[sid] = {}

\* ------------------------------------------------------------ LookupSpec
\* The lookups of the session manager on one session, between appends and
\* process restarts.
LookupNext ==
    \/ \E sid \in CoreIds, role \in Roles : AddMessage(sid, role)
    \/ \E sid \in CoreIds : ExportSessionData(sid)
    \/ \E sid \in CoreIds : GetSessionSummary(sid)
    \/ Tick
    \/ Restart

LookupSpec == Init /\ [][LookupNext]_vars

\* C10: export_session_data and get_session_summary on a session ID that was
\* referenced by nothing but these two lookups return None, write no artifact
\* and leave the session without records.
C10_LookupOfUnknownIsNone ==
    (/\ result.op \in {"export_session_data", "get_session_summary"}
     /\ refs[result.sid] = "lookup"
     /\ appended[result.sid] = <<>>
     /\ evicted_at[result.sid] = -1) =>
        /\ result.ret.none
        /\ ~StatsOf(result.sid).present
        /\ ~exists(store, get_metadata_path(result.sid))

\* ------------------------------------------------------------- SweepSpec
\* cleanup_old_sessions as a function of the directory it finds: a new
\* process (the command line tool) sweeps a directory in which every session
\* is absent, lazily created (a metadata file only) or stored (a log of one
\* message and its metadata), last active on any day up to today.
\* The store of a process that has just started in an empty directory.
new_process == [sessions |-> [sid \in SessionIds |-> 0], heap |-> [sid \in SessionIds |-> <<>>], session_metadata |-> [sid \in SessionIds |-> NoMeta], contexts |-> [sid \in SessionIds |-> EmptyDict], files |-> [path \in Paths |-> NoFile]]

stored_session(sid, t) ==
    LET s1 == add_message(new_process, sid, "User", <<"q">>, [i \in 1..6 |-> t], 1)
    IN  [path \in {get_chat_log_path(sid), get_metadata_path(sid)} |-> s1.files[path]]

lazy_session(sid, t) ==
    LET s1 == get_history(new_process, sid, [i \in 1..2 |-> t]).st
    IN  [path \in {get_chat_log_path(sid), get_metadata_path(sid)} |-> s1.files[path]]

SweepInit ==
    /\ sessions = [sid \in SessionIds |-> 0]
    /\ heap = [sid \in SessionIds |-> <<>>]
    /\ session_metadata = [sid \in SessionIds |-> NoMeta]
    /\ contexts = [sid \in SessionIds |-> EmptyDict]
    /\ \E shape \in [SessionIds -> {"absent", "lazy", "stored"}], day \in [SessionIds -> 0..MaxClock] :
        files = [path \in Paths |->
                    LET sid == CHOOSE x \in SessionIds : path \in {get_chat_log_path(x), get_metadata_path(x)}
                    IN  IF shape[sid] = "stored" THEN stored_session(sid, day[sid])[path]
                        ELSE IF shape[sid] = "lazy" THEN lazy_session(sid, day[sid])[path]
                        ELSE NoFile]
    /\ clock = MaxClock
    /\ next_uuid = 1
    /\ result = NoResult
    /\ appended = [sid \in SessionIds |-> <<>>]
    /\ evicted_at = [sid \in SessionIds |-> -1]
    /\ refs = [sid \in SessionIds |-> "none"]
    /\ threads = NoThreads
    /\ session_manager = SessionManager
    /\ vector_db = SimpleVectorDB

Sweep(max_age_days, max_sessions) ==
    /\ result.op = "none"
    /\ Cleanup(max_age_days, max_sessions, TRUE)

SweepNext == \E max_age_days \in AgeChoices, max_sessions \in CountChoices : Sweep(max_age_days, max_sessions)

SweepSpec == SweepInit /\ [][SweepNext]_vars

\* The sessions of a directory f that have a message log and metadata.
StoredIn(f) == {sid \in SessionIds : f[get_chat_log_path(sid)].kind # "none" /\ f[get_metadata_path(sid)].kind # "none"}

LastActivityIn(f, sid) == fromisoformat(f[get_metadata_path(sid)].meta.last_activity)

AgedIn(f, max_age_days, now) == {sid \in StoredIn(f) : LastActivityIn(f, sid) < now - max_age_days}

\* The sets of k stored sessions none of which is younger than a session left out.
OldestIn(f, k) == {E \in SUBSET StoredIn(f) : Cardinality(E) = k /\ \A e \in E, o \in StoredIn(f) \ E : LastActivityIn(f, e) <= LastActivityIn(f, o)}

\* C8: a sweep removes both records of exactly the sessions last active before
\* now - max_age_days plus, when the number n of stored sessions exceeds
\* max_sessions, the n - max_sessions oldest by last activity; every other
\* session keeps its records unchanged.
C8_SweepRemovesExactly ==
    result.op = "cleanup_old_sessions" =>
        LET f == result.before
            n == Cardinality(StoredIn(f))
            aged == AgedIn(f, result.max_age_days, result.now)
        IN  \E E \in (IF n > result.max_sessions THEN OldestIn(f, n - result.max_sessions) ELSE {{}}) :
                /\ result.ret = Cardinality(aged \cup E)
                /\ \A sid \in SessionIds :
                    IF sid \in aged \cup E
                    THEN files[get_chat_log_path(sid)] = NoFile /\ files[get_metadata_path(sid)] = NoFile
                    ELSE files[get_chat_log_path(sid)] = f[get_chat_log_path(sid)] /\ files[get_metadata_path(sid)] = f[get_metadata_path(sid)]

\* C8 witness: three stored sessions last active 3 days ago, 1 day ago and
\* today; a sweep with max_age_days = 2 removed the first and only it, and a
\* session kept was listed before it.
C8_Witness ==
    /\ result.op = "cleanup_old_sessions"
    /\ result.max_age_days = 2
    /\ result.max_sessions = 3
    /\ StoredIn(result.before) = SessionIds
    /\ {LastActivityIn(result.before, sid) : sid \in SessionIds} = {0, 2, 3}
    /\ result.ret = 1
    /\ Cardinality(StoredIn(files)) = 2

\* C8 second witness: with max_sessions = 1 the two oldest of three stored
\* sessions, none of them aged, were removed.
C8_WitnessCount ==
    /\ result.op = "cleanup_old_sessions"
    /\ result.max_sessions = 1
    /\ StoredIn(result.before) = SessionIds
    /\ AgedIn(result.before, result.max_age_days, result.now) = {}
    /\ result.ret = 2
    /\ \E kept \in StoredIn(files) : \A sid \in SessionIds : LastActivityIn(result.before, sid) <= LastActivityIn(result.before, kept)

\* ------------------------------------------- ollama_client.py, asr.py
\* A text is a sequence of tokens: a word, " " for a run of blanks, "\n" for a
\* line break and ":" for a colon.
IsSpace(w) == w \in {" ", "\n"}

Lower(w) ==
    CASE w = "FAQ" -> "faq"
      [] w = "Wheat" -> "wheat"
      [] w = "CROP_TYPE" -> "crop_type"
      [] w = "ADVICE" -> "advice"
      [] w = "There" -> "there"
      [] w = "Thousand" -> "thousand"
      [] OTHER -> w

RECURSIVE lstrip(_)
lstrip(text) == IF text # <<>> /\ IsSpace(Head(text)) THEN lstrip(Tail(text)) ELSE text

RECURSIVE rstrip(_)
rstrip(text) == IF text # <<>> /\ IsSpace(text[Len(text)]) THEN rstrip(SubSeq(text, 1, Len(text) - 1)) ELSE text

strip(text) == rstrip(lstrip(text))

lower(text) == [i \in 1..Len(text) |-> Lower(text[i])]

\* str.split(): the words of the text.
split(text) == SelectSeq(text, LAMBDA w : ~IsSpace(w))

\* One call of the completion service: it fails (an exception, or a status
\* other than 200) or it answers with a body.
Bodies == {<<>>, <<" ">>, <<"banana">>, <<" ", "FAQ", "\n">>, <<"crop_advice", " ", "because">>, <<"fertilizer">>, <<"soil_health">>}

Calls(bodies) == {[ok |-> FALSE, body |-> <<>>]} \cup {[ok |-> TRUE, body |-> b] : b \in bodies}

generate_response(call) == IF call.ok THEN strip(call.body) ELSE <<>>

valid_intents == {"crop_advice", "fertilizer", "faq", "soil_health"}

\* intent[0] of an empty list raises IndexError, which nothing here catches.
classify_intent_llm(call) ==
    LET llm_output == generate_response(call)
        intent == split(lower(strip(llm_output)))
    IN  IF intent = <<>> THEN [raised |-> TRUE, intent |-> "IndexError"]
        ELSE [raised |-> FALSE, intent |-> IF intent[1] \in valid_intents THEN intent[1] ELSE "faq"]

\* One classification stage of asr.py: the request and the parsing of its
\* reply are inside try / except Exception, which falls back to faq.
audio_stage_intent(call) ==
    IF ~call.ok THEN "faq"
    ELSE LET classified_intent == split(lower(strip(call.body)))
         IN  IF classified_intent = <<>> THEN "faq"
             ELSE IF classified_intent[1] \in valid_intents THEN classified_intent[1] ELSE "faq"

\* audio: "none" (no path), "missing" (no file at the path) or "file".
transcribe(audio) == IF audio = "file" THEN <<"holes", " ", "cabbage">> ELSE <<"no", " ", "audio">>

\* A variant that lets the first classification stand as the final one.
process_audio_with_audio_intent(audio, text_input, audio_call, final_call) ==
    LET transcribed_text == transcribe(audio)
        combined_text == IF strip(text_input) # <<>> THEN strip(transcribed_text \o <<" ">> \o text_input) ELSE transcribed_text
    IN  [transcribed_text |-> transcribed_text, audio_intent |-> audio_stage_intent(audio_call), combined_text |-> combined_text, final_intent |-> audio_stage_intent(audio_call)]

process_audio_with_enhanced_intent(audio, text_input, audio_call, final_call) ==
    LET transcribed_text == transcribe(audio)
    IN  [transcribed_text |-> transcribed_text,
         audio_intent |-> audio_stage_intent(audio_call),
         combined_text |-> IF strip(text_input) # <<>> THEN strip(transcribed_text \o <<" ">> \o text_input) ELSE transcribed_text,
         final_intent |-> audio_stage_intent(final_call)]

\* ------------------------------------------------- language_detection.py
supported_languages == [code \in {"en", "ur"} |-> IF code = "en" THEN "English" ELSE "Urdu"]

get_fallback_result == <<"en", "English", "low", "fallback">>

\* detected: what the detector answers, "xx" for a language that is not
\* supported or a detector that raises.  A result is the sequence
\* <<language_code, language_name, confidence, method>>.
detect_language(present, detected, method) ==
    IF ~present THEN get_fallback_result
    ELSE IF detected \in DOMAIN supported_languages THEN <<detected, supported_languages[detected], "high", method>>
    ELSE get_fallback_result

Detected == {"en", "ur", "xx"}

\* ------------------------------------------------------------- server.py
\* A dict is a function from keys to texts.
get(d, key, default) == IF key \in DOMAIN d THEN d[key] ELSE default

restrict(d, keys) == [k \in DOMAIN d \cap keys |-> d[k]]

crops == <<"wheat", "cabbage", "tomato", "corn", "rice", "potato">>

regions == <<"punjab", "pakistan", "india", "usa", "canada">>

\* str.__contains__ on one word: the vocabulary entries that are substrings
\* of it.
contained(w) ==
    CASE w = "thousand" -> {"usa"}
      [] w = "popcorn" -> {"corn"}
      [] OTHER -> {w}

\* The first entry of names that occurs in the lower-cased text, as a list of
\* at most one element.
first_mentioned(names, text) ==
    LET hits == SelectSeq(names, LAMBDA n : \E w \in Range(lower(text)) : n \in contained(w))
    IN  IF hits = <<>> THEN <<>> ELSE <<hits[1]>>

index_of(text, tok) == CHOOSE i \in 1..Len(text) : text[i] = tok /\ \A j \in 1..(i - 1) : text[j] # tok

\* str.split('\n')
RECURSIVE split_lines(_)
split_lines(text) ==
    IF "\n" \notin Range(text) THEN <<text>>
    ELSE <<SubSeq(text, 1, index_of(text, "\n") - 1)>> \o split_lines(SubSeq(text, index_of(text, "\n") + 1, Len(text)))

\* The key of a line, a single word in every reply considered here.
key_of(text) == IF text = <<>> THEN "" ELSE text[1]

\* Lines 264-267: key, value = line.split(':', 1) for every line with a colon.
RECURSIVE parse_lines(_, _)
parse_lines(lines, parsed) ==
    IF lines = <<>> THEN parsed
    ELSE LET line == Head(lines)
         IN  IF ":" \in Range(line)
             THEN parse_lines(Tail(lines), (key_of(lower(strip(SubSeq(line, 1, index_of(line, ":") - 1)))) :> strip(SubSeq(line, index_of(line, ":") + 1, Len(line)))) @@ parsed)
             ELSE parse_lines(Tail(lines), parsed)

\* The list of crop_planner_worker, in its own order.
planner_crops == <<"cabbage", "wheat", "tomato", "corn", "rice", "potato">>

plant_diagnosis_worker(call) == [diagnosis |-> generate_response(call), crop_type |-> <<"wheat">>]

crop_planner_worker(text, session_context, call) ==
    LET llm_output == generate_response(call)
        parsed == parse_lines(split_lines(llm_output), EmptyDict)
        detected_crop == first_mentioned(planner_crops, text)
    IN  IF DOMAIN parsed # {} THEN parsed
        ELSE [advice |-> llm_output,
              crop_type |-> IF detected_crop = <<>> THEN <<"unknown">> ELSE detected_crop,
              region |-> get(session_context, "region", <<"unknown">>)]

fertilizer_planner_worker(call) == [advice |-> generate_response(call), last_fertilizer |-> <<"NPK">>]

\* The answer of the worker; its list of sources is not part of any state.
knowledge_base_search_worker(call) == [answer |-> generate_response(call)]

sustainability_worker(call) == [soil_status |-> <<"Low", " ", "nitrogen">>, advice |-> generate_response(call)]

\* Lines 476-516: the worker an intent is routed to, and the keys of its
\* output that go to the session context.
dispatch(intent, text, session_context, call) ==
    LET out == CASE intent = "crop_advice" -> crop_planner_worker(text, session_context, call)
                 [] intent = "fertilizer" -> fertilizer_planner_worker(call)
                 [] intent = "faq" -> knowledge_base_search_worker(call)
                 [] intent = "soil_health" -> sustainability_worker(call)
        keys == CASE intent = "crop_advice" -> {"crop_type", "region"}
                  [] intent = "fertilizer" -> {"last_fertilizer"}
                  [] intent = "faq" -> {}
                  [] intent = "soil_health" -> {"soil_status"}
    IN  [worker_outputs |-> out, memory_updates |-> restrict(out, keys)]

\* Lines 476-516: the function an intent is routed to.
worker_of(intent) ==
    CASE intent = "crop_advice" -> "crop_planner_worker"
      [] intent = "fertilizer" -> "fertilizer_planner_worker"
      [] intent = "faq" -> "knowledge_base_search_worker"
      [] intent = "soil_health" -> "sustainability_worker"

input_router(image, audio, text, detected) ==
    IF image THEN [input_type |-> "image", detected_language |-> <<>>]
    ELSE IF audio # "none" THEN [input_type |-> "voice", detected_language |-> detect_language(audio = "file", detected, "audio_detection")]
    ELSE [input_type |-> "text", detected_language |-> detect_language(strip(text) # <<>>, detected, "text_detection")]

update_context(s, sid, updates) == [s EXCEPT !.contexts[sid] = updates @@ @]

\* A variant in which the vocabulary has the last word over the updates.
validate_vocabulary_last(s, sid, updates, user_input) ==
    LET crop == first_mentioned(crops, user_input)
        region == first_mentioned(regions, user_input)
        from_crop == IF crop = <<>> THEN EmptyDict ELSE [crop_type |-> crop]
        from_region == IF region = <<>> THEN EmptyDict ELSE [region |-> region]
        validated_updates == from_region @@ from_crop @@ updates
    IN  IF DOMAIN validated_updates # {} THEN [st |-> update_context(s, sid, validated_updates), ret |-> validated_updates]
        ELSE [st |-> s, ret |-> EmptyDict]

validate_and_update_context(s, sid, updates, user_input) ==
    LET crop == first_mentioned(crops, user_input)
        region == first_mentioned(regions, user_input)
        from_crop == IF crop = <<>> THEN EmptyDict ELSE [crop_type |-> crop]
        from_region == IF region = <<>> THEN EmptyDict ELSE [region |-> region]
        validated_updates == updates @@ from_region @@ from_crop
    IN  IF DOMAIN validated_updates # {} THEN [st |-> update_context(s, sid, validated_updates), ret |-> validated_updates]
        ELSE [st |-> s, ret |-> EmptyDict]

key_order == <<"detected_language", "diagnosis", "crop_type", "region", "advice", "answer", "last_fertilizer", "soil_status">>

\* str(worker_outputs), the keys in the order of key_order.
RECURSIVE str_items(_, _)
str_items(d, keys) ==
    IF keys = <<>> THEN <<>>
    ELSE (IF Head(keys) \in DOMAIN d THEN <<Head(keys), ":">> \o d[Head(keys)] ELSE <<>>) \o str_items(d, Tail(keys))

str(d) == <<"{">> \o str_items(d, key_order) \o <<"}">>

\* MultimodalServicer.Analyze.  req: image (bytes present), audio, text.
\* env: detected (the language detector), audio_call and classify_call (the
\* classification calls), worker_call, final_call (the other completion
\* calls).  tm: the clock reads of get_history and of the two add_message
\* calls.  An exception leaves the handler at the statement that raised it.
Analyze_body(s, sid, req, env, tm, uuid) ==
    LET text == strip(req.text)
        \* lines 439-440; get_context returns the dict of _contexts itself
        g == get_history(s, sid, tm[1])
        routed == input_router(req.image, req.audio, text, env.detected)
        \* lines 448-450
        s1 == IF routed.detected_language # <<>>
              THEN [g.st EXCEPT !.contexts[sid] = [detected_language |-> routed.detected_language] @@ @]
              ELSE g.st
        session_context == s1.contexts[sid]
        audio_processing_result == process_audio_with_enhanced_intent(req.audio, text, env.audio_call, env.classify_call)
        classified == CASE routed.input_type = "image" -> [raised |-> FALSE, intent |-> "image"]
                        [] routed.input_type = "voice" -> [raised |-> FALSE, intent |-> audio_processing_result.final_intent]
                        [] routed.input_type = "text" -> classify_intent_llm(env.classify_call)
        final_user_input == IF routed.input_type = "voice" THEN audio_processing_result.combined_text ELSE text
        \* the calls of the completion service made for the classification
        classify_calls == CASE routed.input_type = "image" -> <<>>
                            [] routed.input_type = "voice" -> <<"audio_intent", "final_intent">>
                            [] routed.input_type = "text" -> <<"classify_intent_llm">>
        audio_intent == IF routed.input_type = "voice" THEN audio_processing_result.audio_intent ELSE "none"
    IN  IF classified.raised
        THEN [st |-> s1, raised |-> TRUE, intent |-> classified.intent, text_output |-> <<>>, detected_language |-> routed.detected_language,
              calls |-> classify_calls, worker |-> "none", worker_text |-> <<>>, audio_intent |-> audio_intent]
        ELSE LET worked == IF routed.input_type = "image"
                           THEN [worker_outputs |-> plant_diagnosis_worker(env.worker_call), memory_updates |-> plant_diagnosis_worker(env.worker_call)]
                           ELSE dispatch(classified.intent, final_user_input, session_context, env.worker_call)
                 \* lines 518-524; session_context.update repeats update_context
                 v == validate_and_update_context(s1, sid, worked.memory_updates, text)
                 \* line 542
                 text_output == generate_response(env.final_call)
                 user_message == IF routed.input_type = "voice" THEN final_user_input
                                 ELSE IF text # <<>> THEN text ELSE str(worked.worker_outputs)
                 s2 == add_message(v.st, sid, "User", user_message, tm[2], uuid)
                 s3 == add_message(s2, sid, "Assistant", text_output, tm[3], uuid + 1)
             IN  [st |-> s3, raised |-> FALSE, intent |-> classified.intent, text_output |-> text_output, detected_language |-> routed.detected_language,
                  calls |-> classify_calls \o <<"worker", "response">>,
                  worker |-> IF routed.input_type = "image" THEN "plant_diagnosis_worker" ELSE worker_of(classified.intent),
                  worker_text |-> IF routed.input_type = "image" THEN <<>> ELSE final_user_input,
                  audio_intent |-> audio_intent]

CabbageText == <<"There", " ", "are", " ", "holes", " ", "in", " ", "my", " ", "cabbage", " ", "leaves">>

\* lines 553-558: the language fields of the response, "" when the router
\* gave no language.
response_language(detected_language) ==
    IF detected_language # <<>> THEN <<detected_language[1], detected_language[2]>> ELSE <<"", "">>

RequestTexts == {<<>>, <<" ", "Wheat", " ", "punjab">>, CabbageText}

Requests == [image : BOOLEAN, audio : {"none", "missing", "file"}, text : RequestTexts]

WorkerBodies == {<<"rotate">>, <<"CROP_TYPE", ":", " ", "rice", "\n", "ADVICE", ":", " ", "rotate">>}

NoCall == [ok |-> FALSE, body |-> <<>>]

\* The replies to a classification a request is tried with: one for each
\* label, one that names no label, and the failed call.
RequestBodies == {<<"banana">>, <<"crop_advice", " ", "because">>, <<"fertilizer">>, <<"soil_health">>}

\* The collaborators a request reaches; those it does not reach are NoCall.
EnvsWith(req, classify_call) ==
    LET voice == ~req.image /\ req.audio # "none"
        text_only == ~req.image /\ req.audio = "none"
        reached == ~(text_only /\ classify_intent_llm(classify_call).raised)
    IN  [detected : IF req.image \/ req.audio = "missing" \/ (text_only /\ strip(req.text) = <<>>) THEN {"xx"} ELSE Detected,
         audio_call : IF voice THEN Calls(RequestBodies) ELSE {NoCall},
         classify_call : {classify_call},
         worker_call : IF reached THEN Calls(WorkerBodies) ELSE {NoCall},
         final_call : IF reached THEN Calls({<<"answer">>}) ELSE {NoCall}]

Envs(req) == UNION {EnvsWith(req, classify_call) : classify_call \in IF req.image THEN {NoCall} ELSE Calls(RequestBodies)}

\* The reads of the clock of the three calls into chat_memory.py: a day may
\* pass before the messages are appended.
AnalyzeTimes(t) == {<<[i \in 1..2 |-> r[1]], [i \in 1..6 |-> r[2]], [i \in 1..6 |-> r[2]]>> : r \in TimeReads(t, 2)}

Analyze(sid, req) ==
    /\ result.op = "none"
    /\ \E env \in Envs(req), tm \in AnalyzeTimes(clock) :
        \E a \in {Analyze_body(store, sid, req, env, tm, next_uuid)} :
            /\ SetStore(a.st)
            /\ clock' = IF a.raised THEN tm[1][2] ELSE tm[3][6]
            /\ next_uuid' = IF a.raised THEN next_uuid ELSE next_uuid + 2
            /\ appended' = IF a.raised THEN appended
                           ELSE [appended EXCEPT ![sid] = @ \o <<[role |-> "User", message_id |-> next_uuid], [role |-> "Assistant", message_id |-> next_uuid + 1]>>]
            /\ result' = [op |-> "Analyze", sid |-> sid, request |-> req, before |-> store, raised |-> a.raised, intent |-> a.intent,
                          text_output |-> a.text_output, detected_language |-> a.detected_language,
                          env |-> env, calls |-> a.calls, worker |-> a.worker, worker_text |-> a.worker_text, audio_intent |-> a.audio_intent,
                          detected_language_code |-> response_language(a.detected_language)[1],
                          detected_language_name |-> response_language(a.detected_language)[2]]
            /\ Referenced(sid, "other")
            /\ UNCHANGED <<vector_db, session_manager, evicted_at, threads>>

\* The two classifiers on their own, with the reply they were given.  Like a
\* request, each is tried once on the state it finds.
ClassifyIntent ==
    /\ result.op = "none"
    /\ \E call \in Calls(Bodies) :
        result' = [op |-> "classify_intent_llm", call |-> call, raised |-> classify_intent_llm(call).raised, intent |-> classify_intent_llm(call).intent]
    /\ UNCHANGED <<vector_db, session_manager, sessions, heap, session_metadata, contexts, files, clock, next_uuid, appended, evicted_at, refs, threads>>

ProcessAudio ==
    /\ result.op = "none"
    /\ \E audio \in {"missing", "file"}, text \in RequestTexts, audio_call \in Calls(Bodies), final_call \in Calls(Bodies) :
        result' = [op |-> "process_audio_with_enhanced_intent", call |-> final_call, audio_call |-> audio_call, raised |-> FALSE,
                   intent |-> process_audio_with_enhanced_intent(audio, text, audio_call, final_call).final_intent,
                   audio_intent |-> process_audio_with_enhanced_intent(audio, text, audio_call, final_call).audio_intent]
    /\ UNCHANGED <<vector_db, session_manager, sessions, heap, session_metadata, contexts, files, clock, next_uuid, appended, evicted_at, refs, threads>>

\* str.join
RECURSIVE join(_, _)
join(parts, sep) ==
    IF parts = <<>> THEN <<>>
    ELSE IF Len(parts) = 1 THEN parts[1]
    ELSE parts[1] \o sep \o join(Tail(parts), sep)

\* line 441: the transcript, one line "role: message" per message.
prev_context_of(prev_messages) == join([i \in DOMAIN prev_messages |-> <<prev_messages[i].role, ":", " ">> \o prev_messages[i].message], <<"\n">>)

\* language_info: <<>> for None, else <<language_code, language_name, ...>>.
build_context_aware_prompt(worker_outputs, session_context, user_input, prev_context, language_info) ==
    LET user_crops == SelectSeq(crops, LAMBDA crop : \E w \in Range(lower(user_input)) : crop \in contained(w))
        context_summary == (IF DOMAIN session_context # {} THEN <<(<<"Session Context:", " ">> \o str(session_context))>> ELSE <<>>)
                           \o (IF user_crops # <<>> THEN <<(<<"User mentioned crops:", " ">> \o join([i \in DOMAIN user_crops |-> <<user_crops[i]>>], <<",", " ">>))>> ELSE <<>>)
                           \o (IF DOMAIN worker_outputs # {} THEN <<(<<"Worker Analysis:", " ">> \o str(worker_outputs))>> ELSE <<>>)
        prompt_parts == (IF language_info # <<>> /\ language_info[1] # "en"
                         THEN <<(<<"IMPORTANT:", " ", "Please", " ", "respond", " ", "in", " ", language_info[2], ".">>)>> ELSE <<>>)
                        \o (IF prev_context # <<>> THEN <<(<<"Previous Conversation:", "\n">> \o prev_context)>> ELSE <<>>)
                        \o (IF context_summary # <<>> THEN <<(<<"Current Context:", "\n">> \o join(context_summary, <<"\n">>))>> ELSE <<>>)
                        \o <<(<<"User Query:", " ">> \o user_input)>>
    IN  join(prompt_parts, <<"\n", "\n">>)

\* build_context_aware_prompt on its own: what it is tried with.
PromptWorkerOutputs == {EmptyDict, [answer |-> <<"rotate">>], [crop_type |-> <<"rice">>, advice |-> <<"rotate">>]}

PromptContexts == {EmptyDict, [crop_type |-> <<"rice">>], [detected_language |-> <<"ur", "Urdu", "high", "text_detection">>, region |-> <<"punjab">>]}

PromptTexts == {<<>>, <<"Wheat", " ", "punjab">>, CabbageText, <<"rice", " ", "or", " ", "Wheat">>}

PromptTranscripts == {<<>>, <<[role |-> "User", message |-> <<"rice">>], [role |-> "Assistant", message |-> <<"answer">>]>>}

PromptLanguages == {<<>>, <<"en", "English", "high", "text_detection">>, <<"ur", "Urdu", "high", "text_detection">>, <<"en", "English", "low", "fallback">>}

BuildPrompt ==
    /\ result.op = "none"
    /\ \E worker_outputs \in PromptWorkerOutputs, session_context \in PromptContexts, user_input \in PromptTexts,
          prev_messages \in PromptTranscripts, language_info \in PromptLanguages :
        result' = [op |-> "build_context_aware_prompt", worker_outputs |-> worker_outputs, session_context |-> session_context,
                   user_input |-> user_input, prev_context |-> prev_context_of(prev_messages), language_info |-> language_info,
                   prompt |-> build_context_aware_prompt(worker_outputs, session_context, user_input, prev_context_of(prev_messages), language_info)]
    /\ UNCHANGED <<vector_db, session_manager, sessions, heap, session_metadata, contexts, files, clock, next_uuid, appended, evicted_at, refs, threads>>

\* validate_and_update_context on its own: the texts and the proposed updates
\* it is tried with.
ValidateTexts == RequestTexts \cup {<<"cabbage", " ", "or", " ", "Wheat">>, <<"Thousand", " ", "popcorn">>, <<"rice", " ", "in", " ", "india", " ", "and", " ", "pakistan">>}

ValidateUpdates == {EmptyDict, [crop_type |-> <<"rice">>], [crop_type |-> <<>>, advice |-> <<"rotate">>], [region |-> <<"sindh">>, soil_status |-> <<"dry">>]}

ValidateContext(sid) ==
    /\ result.op = "none"
    /\ \E updates \in ValidateUpdates, user_input \in ValidateTexts :
        \E v \in {validate_and_update_context(store, sid, updates, user_input)} :
            /\ SetStore(v.st)
            /\ result' = [op |-> "validate_and_update_context", sid |-> sid, updates |-> updates, user_input |-> user_input, before |-> store, ret |-> v.ret]
    /\ UNCHANGED <<vector_db, session_manager, clock, next_uuid, appended, evicted_at, refs, threads>>

\* ----------------------------------------------------------- AnalyzeSpec
\* One request, or one call of a classifier, against a session that is
\* unseen, known to the running process from an earlier exchange, or known
\* only to the directory after a restart.
known_session(sid) ==
    LET s1 == add_message(new_process, sid, "User", <<"rice">>, [i \in 1..6 |-> 0], 1)
        s2 == add_message(s1, sid, "Assistant", <<"answer">>, [i \in 1..6 |-> 0], 2)
    IN  update_context(s2, sid, [crop_type |-> <<"rice">>])

restarted(s) == [new_process EXCEPT !.files = s.files]

StartFrom(s) ==
    /\ sessions = s.sessions
    /\ heap = s.heap
    /\ session_metadata = s.session_metadata
    /\ contexts = s.contexts
    /\ files = s.files

AnalyzeInit ==
    /\ \E prior \in {"unseen", "known", "restarted"} :
        /\ StartFrom(CASE prior = "unseen" -> new_process
                       [] prior = "known" -> known_session(<<Names[1]>>)
                       [] prior = "restarted" -> restarted(known_session(<<Names[1]>>)))
        /\ next_uuid = IF prior = "unseen" THEN 1 ELSE 3
        /\ appended = [sid \in SessionIds |-> IF prior # "unseen" /\ sid = <<Names[1]>>
                                               THEN <<[role |-> "User", message_id |-> 1], [role |-> "Assistant", message_id |-> 2]>> ELSE <<>>]
        /\ refs = [sid \in SessionIds |-> IF prior # "unseen" /\ sid = <<Names[1]>> THEN "other" ELSE "none"]
    /\ clock \in 0..MaxClock
    /\ result = NoResult
    /\ threads = NoThreads
    /\ session_manager = SessionManager
    /\ vector_db = SimpleVectorDB
    /\ evicted_at = [sid \in SessionIds |-> -1]

AnalyzeNext ==
    \/ BuildPrompt
    \/ \E sid \in CoreIds : ValidateContext(sid)
    \/ \E sid \in CoreIds, req \in Requests : Analyze(sid, req)
    \/ ClassifyIntent
    \/ ProcessAudio

AnalyzeSpec == AnalyzeInit /\ [][AnalyzeNext]_vars

\* The label the first word of a reply names, faq if there is none.
FirstLabel(call) ==
    LET words == SelectSeq(call.body, LAMBDA w : w \notin {" ", "\n"})
    IN  IF call.ok /\ words # <<>> /\ Lower(words[1]) \in {"crop_advice", "fertilizer", "soil_health", "faq"} THEN Lower(words[1]) ELSE "faq"

\* C5: intent classification never raises and yields a valid label: on the
\* text path and in both stages of the voice path the intent is the first
\* word of the trimmed, lower-cased reply when that is a valid label, and faq
\* for every other reply, an empty one and a failed call included.
C5_IntentAlwaysValid ==
    result.op \in {"classify_intent_llm", "process_audio_with_enhanced_intent"} =>
        /\ ~result.raised
        /\ result.intent \in {"crop_advice", "fertilizer", "soil_health", "faq"}
        /\ result.intent = FirstLabel(result.call)
        /\ result.op = "process_audio_with_enhanced_intent" => result.audio_intent = FirstLabel(result.audio_call)

HasModality(req) == req.image \/ req.audio # "none" \/ strip(req.text) # <<>>

\* C6: a request with an image, an audio path or a text completes with a reply
\* and does not raise, whatever the collaborators answer.
C6_AnalyzeAlwaysReplies ==
    (result.op = "Analyze" /\ HasModality(result.request)) => ~result.raised

StatsIn(s, sid) == get_session_stats(s, sid).ret

HistoryIn(s, sid) ==
    LET g == get_history(s, sid, [i \in 1..2 |-> clock])
    IN  g.st.heap[sid][g.ret]

\* C7: a request that raised left the session as it was: the same transcript,
\* the same context mapping, the same metadata (none if there was none).
C7_FailedAnalyzeCommitsNothing ==
    (result.op = "Analyze" /\ result.raised) =>
        /\ HistoryIn(store, result.sid) = HistoryIn(result.before, result.sid)
        /\ contexts[result.sid] = result.before.contexts[result.sid]
        /\ StatsIn(store, result.sid) = StatsIn(result.before, result.sid)
        /\ files[get_metadata_path(result.sid)] = result.before.files[get_metadata_path(result.sid)]
        /\ files[get_chat_log_path(result.sid)] = result.before.files[get_chat_log_path(result.sid)]

\* --------------------------------------------------------------- ConcSpec
\* add_message on the worker threads, which share the store without a lock.
\* A thread runs one group of statements at a time and any other thread, a
\* lookup or a sweep may run between two groups.
Begin(t, sid, role) ==
    \* lines 88, 72-76: the call, and the tests of get_history
    /\ threads[t].pc = "idle"
    /\ threads' = [threads EXCEPT ![t] = [pc |-> IF sessions[sid] # 0 THEN "append" ELSE IF exists(store, get_chat_log_path(sid)) THEN "load" ELSE "create",
                                          sid |-> sid, role |-> role, message_id |-> 0, history |-> sessions[sid], raised |-> FALSE]]
    /\ result' = NoResult
    /\ Referenced(sid, "other")
    /\ UNCHANGED <<vector_db, session_manager, sessions, heap, session_metadata, contexts, files, clock, next_uuid, appended, evicted_at>>

Load(t) ==
    \* lines 77-80, 84: open() raises FileNotFoundError if the log is gone
    /\ threads[t].pc = "load"
    /\ LET sid == threads[t].sid
           path == get_chat_log_path(sid)
       IN  IF exists(store, path)
           THEN \E s1 \in {load_session_metadata(new_list(store, sid, files[path].log), sid).st} :
                   /\ SetStore(s1)
                   /\ threads' = [threads EXCEPT ![t].pc = "append", ![t].history = s1.sessions[sid]]
           ELSE /\ threads' = [threads EXCEPT ![t].pc = "done", ![t].raised = TRUE]
                /\ UNCHANGED <<vector_db, session_manager, sessions, heap, session_metadata, contexts, files>>
    /\ result' = NoResult
    /\ UNCHANGED <<vector_db, session_manager, clock, next_uuid, appended, evicted_at, refs>>

Create(t) ==
    \* lines 83-84
    /\ threads[t].pc = "create"
    /\ LET sid == threads[t].sid
       IN  \E s1 \in {create_session_metadata(store, sid, clock, clock)} :
           \E s2 \in {IF s1.sessions[sid] = 0 THEN new_list(s1, sid, <<>>) ELSE s1} :
               /\ SetStore(s2)
               /\ threads' = [threads EXCEPT ![t].pc = "append", ![t].history = s2.sessions[sid]]
    /\ result' = NoResult
    /\ UNCHANGED <<vector_db, session_manager, clock, next_uuid, appended, evicted_at, refs>>

AppendMessage(t) ==
    \* lines 91-99
    /\ threads[t].pc = "append"
    /\ LET sid == threads[t].sid
           history == threads[t].history
           message_data == [role |-> threads[t].role, message |-> <<"q">>, timestamp |-> isoformat(clock), message_id |-> next_uuid]
       IN  /\ SetStore([store EXCEPT !.heap[sid][history] = Append(@, message_data), !.sessions[sid] = history])
           /\ appended' = [appended EXCEPT ![sid] = Append(@, [role |-> threads[t].role, message_id |-> next_uuid])]
    /\ threads' = [threads EXCEPT ![t].pc = "activity", ![t].message_id = next_uuid]
    /\ next_uuid' = next_uuid + 1
    /\ result' = NoResult
    /\ UNCHANGED <<vector_db, session_manager, clock, evicted_at, refs>>

Activity(t) ==
    \* line 102: update_session_activity
    /\ threads[t].pc = "activity"
    /\ SetStore(update_session_activity(store, threads[t].sid, [i \in 1..6 |-> clock]))
    /\ threads' = [threads EXCEPT ![t].pc = "role"]
    /\ result' = NoResult
    /\ UNCHANGED <<vector_db, session_manager, clock, next_uuid, appended, evicted_at, refs>>

RoleCount(t) ==
    \* lines 103-107
    /\ threads[t].pc = "role"
    /\ SetStore(save_session_metadata(add_role_count(store, threads[t].sid, threads[t].role), threads[t].sid))
    /\ threads' = [threads EXCEPT ![t].pc = "write"]
    /\ result' = NoResult
    /\ UNCHANGED <<vector_db, session_manager, clock, next_uuid, appended, evicted_at, refs>>

WriteLog(t) ==
    \* lines 110-111
    /\ threads[t].pc = "write"
    /\ files' = [files EXCEPT ![get_chat_log_path(threads[t].sid)] = LogFile(heap[threads[t].sid][threads[t].history])]
    /\ threads' = [threads EXCEPT ![t].pc = "done"]
    /\ result' = NoResult
    /\ UNCHANGED <<vector_db, session_manager, sessions, heap, session_metadata, contexts, clock, next_uuid, appended, evicted_at, refs>>

\* One request appends the user's message while another appends a reply.
RoleOf == [t \in Threads |-> IF t = "t1" THEN "User" ELSE "Assistant"]

ConcNext ==
    \/ \E t \in Threads, sid \in CoreIds : Begin(t, sid, RoleOf[t])
    \/ \E t \in Threads : Load(t)
    \/ \E t \in Threads : Create(t)
    \/ \E t \in Threads : AppendMessage(t)
    \/ \E t \in Threads : Activity(t)
    \/ \E t \in Threads : RoleCount(t)
    \/ \E t \in Threads : WriteLog(t)
    \/ \E sid \in CoreIds : ExportSessionData(sid)
    \/ \E max_age_days \in AgeChoices, max_sessions \in {0, 1} : Cleanup(max_age_days, max_sessions, FALSE)

ConcSpec == AnalyzeInit /\ [][ConcNext]_vars

Returned(t) == threads[t].pc = "done" /\ ~threads[t].raised

\* C2: once two concurrent add_message calls on one session have returned, the
\* transcript holds both messages and message_count is its length, in memory
\* and in the two files.
C2_NoLostUpdate ==
    \A sid \in SessionIds :
        ((\A t \in Threads : Returned(t) /\ threads[t].sid = sid) /\ evicted_at[sid] = -1) =>
            /\ \A t \in Threads : threads[t].message_id \in Range(MessageIds(HistoryOf(sid)))
            /\ session_metadata[sid].present
            /\ session_metadata[sid].message_count = Len(HistoryOf(sid))
            /\ files[get_chat_log_path(sid)].kind = "log"
            /\ \A t \in Threads : threads[t].message_id \in Range(MessageIds(files[get_chat_log_path(sid)].log))
            /\ files[get_metadata_path(sid)].kind = "meta"
            /\ files[get_metadata_path(sid)].meta.message_count = Len(files[get_chat_log_path(sid)].log)

\* C3: an export taken while add_message runs holds a message list whose
\* length is the message_count it holds.
C3_ReaderSeesCountOfList ==
    (result.op = "export_session_data" /\ ~result.ret.none /\ result.ret.artifact.session_stats.present) =>
        Len(result.ret.artifact.chat_history) = result.ret.artifact.session_stats.message_count

\* C4: when a sweep has evicted a session that add_message was running on,
\* the call has returned and nothing else has named the session since the
\* sweep, the session has both files, the metadata counting the messages of
\* the log, or neither file.
C4_SweepNeverSplitsSession ==
    \A sid \in SessionIds :
        (evicted_at[sid] >= 0 /\ refs[sid] = "none" /\ (\E t \in Threads : Returned(t) /\ threads[t].sid = sid) /\ (\A t \in Threads : threads[t].pc \in {"idle", "done"})) =>
            \/ files[get_chat_log_path(sid)].kind = "none" /\ files[get_metadata_path(sid)].kind = "none"
            \/ /\ files[get_chat_log_path(sid)].kind = "log"
               /\ files[get_metadata_path(sid)].kind = "meta"
               /\ files[get_metadata_path(sid)].meta.message_count = Len(files[get_chat_log_path(sid)].log)

\* C11: a request with no image, no audio path and a blank text is refused:
\* no call of the completion service is made for it and the transcript of the
\* session is what it was.
C11_NoModalityIsRefused ==
    (result.op = "Analyze" /\ ~HasModality(result.request)) =>
        /\ result.calls = <<>>
        /\ HistoryIn(store, result.sid) = HistoryIn(result.before, result.sid)

\* ------------------------------------------------------------- FlushSpec
\* add_message with a write that may fail.  A failed write is an open() that
\* raises (OSError): the file keeps what it held, the exception leaves
\* add_message at that statement and nothing after it runs.
FailPoints == {"none", "update_session_activity", "add_message", "chat_log"}

\* update_session_activity up to, and without, its save (chat_memory.py:63-67).
stamp_activity(s, sid, tm) ==
    LET s1 == IF ~s.session_metadata[sid].present THEN create_session_metadata(s, sid, tm[4], tm[5]) ELSE s
    IN  [s1 EXCEPT !.session_metadata[sid].last_activity = isoformat(tm[6]), !.session_metadata[sid].message_count = @ + 1]

\* fail: the write of add_message that raises, "none" when all succeed.
add_message_io(s, sid, role, message, tm, uuid, fail) ==
    LET g == get_history(s, sid, tm)
        history == g.ret
        message_data == [role |-> role, message |-> message, timestamp |-> isoformat(tm[3]), message_id |-> uuid]
        s1 == [g.st EXCEPT !.heap[sid][history] = Append(@, message_data), !.sessions[sid] = history]
        stamped == stamp_activity(s1, sid, tm)
        counted == add_role_count(update_session_activity(s1, sid, tm), sid, role)
        saved == save_session_metadata(counted, sid)
    IN  CASE fail = "none" -> [st |-> [saved EXCEPT !.files[get_chat_log_path(sid)] = LogFile(saved.heap[sid][history])], raised |-> FALSE]
          [] fail = "update_session_activity" -> [st |-> stamped, raised |-> TRUE]
          [] fail = "add_message" -> [st |-> counted, raised |-> TRUE]
          [] fail = "chat_log" -> [st |-> saved, raised |-> TRUE]

time_of(iso) == iso[2]

\* result in FlushSpec: the last add_message ("other" once another call
\* followed it), whether it raised, and per session the last two values of last_activity that get_session_stats returned (-1: none).
NoReports == [op |-> "none", sid |-> <<>>, raised |-> FALSE, fail |-> "none", message_id |-> 0, reported |-> [sid \in SessionIds |-> -1], previous |-> [sid \in SessionIds |-> -1]]

FlushInit ==
    /\ StartFrom(new_process)
    /\ clock = 0
    /\ next_uuid = 1
    /\ result = NoReports
    /\ appended = [sid \in SessionIds |-> <<>>]
    /\ evicted_at = [sid \in SessionIds |-> -1]
    /\ refs = [sid \in SessionIds |-> "none"]
    /\ threads = NoThreads
    /\ session_manager = SessionManager
    /\ vector_db = SimpleVectorDB

Called(op, sid, raised, fail, id) == result' = [result EXCEPT !.op = op, !.sid = sid, !.raised = raised, !.fail = fail, !.message_id = id]

OtherCall == Called("other", <<>>, FALSE, "none", 0)

\* The roles of a conversation alternate (server.py:548-549).
TurnOf(n) == IF n % 2 = 1 THEN "User" ELSE "Assistant"

FlushAddMessage(sid, role, fail) ==
    /\ next_uuid <= MaxAppends
    /\ \E tm \in TimeReads(clock, 6), message \in Texts :
        \E a \in {add_message_io(store, sid, role, message, tm, next_uuid, fail)} :
            /\ SetStore(a.st)
            /\ Called("add_message", sid, a.raised, fail, next_uuid)
            /\ clock' = tm[6]
    /\ next_uuid' = next_uuid + 1
    /\ UNCHANGED <<vector_db, session_manager, appended, evicted_at, refs, threads>>

FlushGetHistory(sid) ==
    /\ \E tm \in TimeReads(clock, 2) :
        /\ SetStore(get_history(store, sid, tm).st)
        /\ clock' = tm[2]
    /\ OtherCall
    /\ UNCHANGED <<vector_db, session_manager, next_uuid, appended, evicted_at, refs, threads>>

FlushGetSessionStats(sid) ==
    /\ \E g \in {get_session_stats(store, sid)} :
        /\ SetStore(g.st)
        /\ result' = IF g.ret.present
                     THEN [result EXCEPT !.op = "other", !.sid = <<>>, !.raised = FALSE, !.fail = "none", !.message_id = 0,
                                         !.previous[sid] = result.reported[sid], !.reported[sid] = time_of(g.ret.last_activity)]
                     ELSE [result EXCEPT !.op = "other", !.sid = <<>>, !.raised = FALSE, !.fail = "none", !.message_id = 0]
    /\ UNCHANGED <<vector_db, session_manager, clock, next_uuid, appended, evicted_at, refs, threads>>

FlushSweep(max_age_days, max_sessions) ==
    /\ \E listing \in Orders(session_files(store)) :
        \E c \in {cleanup_old_sessions(store, max_age_days, max_sessions, listing, clock)} :
            SetStore(c.st)
    /\ OtherCall
    /\ UNCHANGED <<vector_db, session_manager, clock, next_uuid, appended, evicted_at, refs, threads>>

FlushRestart ==
    /\ SetStore([new_process EXCEPT !.files = files])
    /\ OtherCall
    /\ UNCHANGED <<vector_db, session_manager, clock, next_uuid, appended, evicted_at, refs, threads>>

FlushNext ==
    \/ \E sid \in CoreIds, fail \in FailPoints : FlushAddMessage(sid, TurnOf(next_uuid), fail)
    \/ \E sid \in CoreIds : FlushGetHistory(sid)
    \/ \E sid \in CoreIds : FlushGetSessionStats(sid)
    \/ \E max_age_days \in AgeChoices, max_sessions \in {0, 1} : FlushSweep(max_age_days, max_sessions)
    \/ Tick
    \/ FlushRestart

FlushSpec == FlushInit /\ [][FlushNext]_vars

\* C12: the last_activity that get_session_stats returns for a session is
\* never earlier than one it returned before, whatever calls, failed or
\* successful writes, sweeps and restarts came in between.
C12_LastActivityNeverGoesBack ==
    \A sid \in SessionIds :
        (result.op # "none" /\ result.previous[sid] # -1) => result.previous[sid] <= result.reported[sid]

\* C12 witness: a second report, later than the first, after a write failed.
C12_Witness ==
    \E sid \in CoreIds :
        /\ result.previous[sid] # -1
        /\ result.previous[sid] < result.reported[sid]
        /\ store.session_metadata[sid].present
        /\ store.heap[sid] # <<>>
        /\ store.session_metadata[sid].message_count < Len(HistoryOf(sid))

\* C13: in every state the last_activity of a session is the timestamp of its
\* most recently appended message, and its created_at when it has no message.
C13_LastActivityIsLastTimestamp ==
    \A sid \in SessionIds :
        StatsOf(sid).present =>
            LET h == HistoryOf(sid)
            IN  IF h # <<>>
                THEN StatsOf(sid).last_activity = h[Len(h)].timestamp
                ELSE StatsOf(sid).last_activity = StatsOf(sid).created_at

\* C14: after an add_message that raised on a failed write, get_session_stats
\* and get_history agree with the transcript in memory: the appended message is
\* counted, per role too, and last_activity is the one stamped for it.
C14_MemoryStaysAuthoritative ==
    (result.op = "add_message" /\ result.raised) =>
        LET sid == result.sid
            h == HistoryOf(sid)
        IN  /\ h # <<>>
            /\ h[Len(h)].message_id = result.message_id
            /\ StatsOf(sid).present
            /\ StatsOf(sid).message_count = Len(h)
            /\ StatsOf(sid).user_messages = CountRole(h, "User")
            /\ StatsOf(sid).assistant_messages = CountRole(h, "Assistant")
            /\ StatsOf(sid).last_activity = session_metadata[sid].last_activity

\* ----------------------------------------------------------- ManagerSpec
\* The calls of start_automatic_cleanup and stop_automatic_cleanup a run makes.
MaxCalls == 4

\* Hours between two sweeps (24 in the code), in hours of time.sleep(3600).
cleanup_interval_hours == 2

cleanup_config == [max_age_days |-> 30, max_sessions |-> 100, cleanup_interval_hours |-> cleanup_interval_hours]

\* threading.Thread.is_alive of the cleanup thread.
is_alive == session_manager.cleanup_thread \notin {"none", "exited"}

\* A directory with one session of which the metadata record cannot be read.
unreadable_session(sid, t) ==
    [path \in {get_chat_log_path(sid), get_metadata_path(sid)} |-> IF path = get_metadata_path(sid) THEN Unreadable ELSE stored_session(sid, t)[path]]

\* result in ManagerSpec: the last of the two calls, how many were made, and
\* whether the worker ran a sweep, or a sweep of it raised, in the hour that
\* is passing. The directory is empty or holds one session.
ManagerInit ==
    /\ \E shape \in {"absent", "stored", "unreadable"} :
        StartFrom([new_process EXCEPT !.files = [path \in Paths |->
                    IF path \notin {get_chat_log_path(<<Names[1]>>), get_metadata_path(<<Names[1]>>)} \/ shape = "absent" THEN NoFile
                    ELSE IF shape = "stored" THEN stored_session(<<Names[1]>>, 0)[path]
                    ELSE unreadable_session(<<Names[1]>>, 0)[path]]])
    /\ clock = 0
    /\ next_uuid = 1
    /\ result = [op |-> "none", calls |-> 0, swept |-> FALSE, failed |-> FALSE]
    /\ appended = [sid \in SessionIds |-> <<>>]
    /\ evicted_at = [sid \in SessionIds |-> -1]
    /\ refs = [sid \in SessionIds |-> "none"]
    /\ threads = NoThreads
    /\ session_manager = SessionManager
    /\ vector_db = SimpleVectorDB

start_automatic_cleanup ==
    /\ result.calls < MaxCalls
    /\ session_manager' = IF session_manager.cleanup_thread # "none" /\ is_alive
                          THEN session_manager
                          ELSE [session_manager EXCEPT !.stop_cleanup = FALSE, !.cleanup_thread = "schedule"]
    /\ result' = [result EXCEPT !.op = "start_automatic_cleanup", !.calls = @ + 1]
    /\ UNCHANGED <<vector_db, sessions, heap, session_metadata, contexts, files, clock, next_uuid, appended, evicted_at, refs, threads>>

\* join(timeout=5) returns whether or not the thread has ended by then.
stop_automatic_cleanup ==
    /\ result.calls < MaxCalls
    /\ session_manager' = [session_manager EXCEPT !.stop_cleanup = TRUE]
    /\ result' = [result EXCEPT !.op = "stop_automatic_cleanup", !.calls = @ + 1]
    /\ UNCHANGED <<vector_db, sessions, heap, session_metadata, contexts, files, clock, next_uuid, appended, evicted_at, refs, threads>>

\* _cleanup_worker, line 47: one more job on the scheduler of the module.
RegisterJob ==
    /\ session_manager.cleanup_thread = "schedule"
    /\ session_manager' = [session_manager EXCEPT !.jobs = Append(@, cleanup_config.cleanup_interval_hours), !.cleanup_thread = "while"]
    /\ UNCHANGED <<vector_db, sessions, heap, session_metadata, contexts, files, clock, next_uuid, result, appended, evicted_at, refs, threads>>

\* line 49: while not self._stop_cleanup
TestStopFlag ==
    /\ session_manager.cleanup_thread = "while"
    /\ session_manager' = [session_manager EXCEPT !.cleanup_thread = IF session_manager.stop_cleanup THEN "exited" ELSE "run_pending"]
    /\ UNCHANGED <<vector_db, sessions, heap, session_metadata, contexts, files, clock, next_uuid, result, appended, evicted_at, refs, threads>>

\* line 50: every job that is due sweeps the store and is due again an
\* interval later. A sweep that raises is caught nowhere (lines 45-62): the
\* exception leaves run_pending and _cleanup_worker, and the thread ends
\* with the job still due.
RunPending ==
    /\ session_manager.cleanup_thread = "run_pending"
    /\ LET due == {i \in DOMAIN session_manager.jobs : session_manager.jobs[i] = 0}
       IN  IF due = {}
           THEN /\ session_manager' = [session_manager EXCEPT !.cleanup_thread = "sleep"]
                /\ result' = [result EXCEPT !.swept = FALSE, !.failed = FALSE]
                /\ UNCHANGED <<sessions, heap, session_metadata, contexts, files>>
           ELSE \E listing \in Orders(session_files(store)) :
                \E c \in {cleanup_old_sessions(store, cleanup_config.max_age_days, cleanup_config.max_sessions, listing, clock)} :
                    IF c.raised
                    THEN /\ session_manager' = [session_manager EXCEPT !.cleanup_thread = "exited"]
                         /\ result' = [result EXCEPT !.swept = FALSE, !.failed = TRUE]
                         /\ UNCHANGED <<sessions, heap, session_metadata, contexts, files>>
                    ELSE /\ session_manager' = [session_manager EXCEPT !.jobs = [i \in DOMAIN @ |-> IF i \in due THEN cleanup_config.cleanup_interval_hours ELSE @[i]], !.cleanup_thread = "sleep"]
                         /\ result' = [result EXCEPT !.swept = TRUE, !.failed = FALSE]
                         /\ SetStore(c.st)
    /\ UNCHANGED <<vector_db, clock, next_uuid, appended, evicted_at, refs, threads>>

\* An hour passes: time.sleep(3600) of line 51 returns.
Hour ==
    /\ session_manager' = [session_manager EXCEPT !.jobs = [i \in DOMAIN @ |-> IF @[i] > 0 THEN @[i] - 1 ELSE 0],
                                                  !.cleanup_thread = IF @ = "sleep" THEN "while" ELSE @]
    /\ result' = [result EXCEPT !.swept = FALSE, !.failed = FALSE]
    /\ UNCHANGED <<vector_db, sessions, heap, session_metadata, contexts, files, clock, next_uuid, appended, evicted_at, refs, threads>>

cleanup_worker == RegisterJob \/ TestStopFlag \/ RunPending

ManagerNext ==
    \/ start_automatic_cleanup
    \/ stop_automatic_cleanup
    \/ RegisterJob
    \/ TestStopFlag
    \/ RunPending
    \/ Hour

\* The cleanup thread is scheduled whenever it can run, and time passes.
ManagerSpec == ManagerInit /\ [][ManagerNext]_vars /\ WF_vars(cleanup_worker) /\ WF_vars(Hour)

\* C15: once the calls have ended, the sweep follows the last one: after a
\* last start the worker stays alive with the stop flag cleared and sweeps
\* again and again; after a last stop the worker ends and sweeps no more.
C15_SweepFollowsLastCall ==
    /\ <>[](result.op = "start_automatic_cleanup") => (<>[](is_alive /\ ~session_manager.stop_cleanup) /\ []<>result.swept)
    /\ <>[](result.op = "stop_automatic_cleanup") => <>[](~is_alive /\ ~result.swept)

\* A request that input_router sends down the voice path.
IsVoice(req) == ~req.image /\ req.audio # "none"

\* C16: a voice request is dispatched to the worker of the intent classified
\* from the combined text, whatever the intent classified from the
\* transcription alone was, and that worker is given the combined text.
C16_VoiceDispatchByFinalIntent ==
    (result.op = "Analyze" /\ IsVoice(result.request)) =>
        /\ ~result.raised
        /\ result.audio_intent = audio_stage_intent(result.env.audio_call)
        /\ result.intent = audio_stage_intent(result.env.classify_call)
        /\ result.worker = worker_of(audio_stage_intent(result.env.classify_call))
        /\ result.worker_text = (IF strip(result.request.text) # <<>>
                                 THEN strip(transcribe(result.request.audio) \o <<" ">> \o strip(result.request.text))
                                 ELSE transcribe(result.request.audio))

\* C16 witness: the two stages disagree and the worker of the second one ran
\* on the transcription joined with the typed text.
C16_Witness ==
    /\ result.op = "Analyze"
    /\ IsVoice(result.request)
    /\ result.request.audio = "file"
    /\ strip(result.request.text) # <<>>
    /\ result.audio_intent = "soil_health"
    /\ result.intent = "crop_advice"
    /\ result.worker = "crop_planner_worker"
    /\ result.worker_text = <<"holes", " ", "cabbage", " ", "Wheat", " ", "punjab">>

\* The vocabulary entries that occur in the text, case-insensitively and as
\* substrings, by their position in the vocabulary.
Occurring(names, text) == {i \in DOMAIN names : \E j \in DOMAIN text : names[i] \in contained(Lower(text[j]))}

Least(S) == CHOOSE i \in S : \A j \in S : i <= j

\* What the claim says the merged mapping is.
MergedUpdates(updates, user_input) ==
    LET found == [category \in {"crop_type", "region"} |-> Occurring(IF category = "crop_type" THEN crops ELSE regions, user_input)]
        names == [category \in {"crop_type", "region"} |-> IF category = "crop_type" THEN crops ELSE regions]
        keys == DOMAIN updates \cup {category \in {"crop_type", "region"} : found[category] # {}}
    IN  [k \in keys |-> IF k \in DOMAIN updates THEN updates[k] ELSE <<names[k][Least(found[k])]>>]

\* C17: validate_and_update_context returns, and writes into the context of
\* the session, the first crop and the first region of the vocabulary that
\* the text names, overridden by every key of the proposed updates; the other
\* keys of the context stay as they were.
C17_ValidatedUpdatesMerge ==
    result.op = "validate_and_update_context" =>
        LET merged == MergedUpdates(result.updates, result.user_input)
            before == result.before.contexts[result.sid]
        IN  /\ result.ret = merged
            /\ DOMAIN contexts[result.sid] = DOMAIN before \cup DOMAIN merged
            /\ \A k \in DOMAIN contexts[result.sid] : contexts[result.sid][k] = IF k \in DOMAIN merged THEN merged[k] ELSE before[k]
            /\ \A sid \in SessionIds \ {result.sid} : contexts[sid] = result.before.contexts[sid]

\* C17 witness: the text names india before pakistan, the vocabulary lists
\* pakistan first; the updates bring a crop_type of their own, an empty one,
\* and the context already had a crop_type.
C17_Witness ==
    /\ result.op = "validate_and_update_context"
    /\ result.user_input = <<"rice", " ", "in", " ", "india", " ", "and", " ", "pakistan">>
    /\ result.updates = [crop_type |-> <<>>, advice |-> <<"rotate">>]
    /\ result.before.contexts[result.sid] = [crop_type |-> <<"rice">>]
    /\ contexts[result.sid] = [crop_type |-> <<>>, region |-> <<"pakistan">>, advice |-> <<"rotate">>]

\* C18: after a text request "There are holes in my cabbage leaves" on a
\* session with an empty context, the context has crop_type cabbage.
C18_CabbageIsRemembered ==
    (/\ result.op = "Analyze"
     /\ ~result.raised
     /\ ~result.request.image
     /\ result.request.audio = "none"
     /\ result.request.text = CabbageText
     /\ DOMAIN result.before.contexts[result.sid] = {}) =>
        /\ "crop_type" \in DOMAIN contexts[result.sid]
        /\ contexts[result.sid].crop_type = <<"cabbage">>

\* The paragraphs of a text: what two newlines in a row separate.
RECURSIVE paragraphs(_)
paragraphs(text) ==
    IF \E i \in 1..(Len(text) - 1) : text[i] = "\n" /\ text[i + 1] = "\n"
    THEN LET i == Least({j \in 1..(Len(text) - 1) : text[j] = "\n" /\ text[j + 1] = "\n"})
         IN  <<SubSeq(text, 1, i - 1)>> \o paragraphs(SubSeq(text, i + 2, Len(text)))
    ELSE <<text>>

\* The sections the claims count, in their order, that have content for the
\* inputs of the call in result.
PresentSections ==
    LET mentioned == Occurring(crops, result.user_input) # {}
    IN  (IF result.language_info # <<>> /\ result.language_info[1] # "en" THEN <<"language">> ELSE <<>>)
        \o (IF result.prev_context # <<>> THEN <<"transcript">> ELSE <<>>)
        \o (IF DOMAIN result.session_context # {} \/ mentioned THEN <<"context">> ELSE <<>>)
        \o (IF DOMAIN result.worker_outputs # {} THEN <<"worker">> ELSE <<>>)
        \o (IF result.user_input # <<>> THEN <<"query">> ELSE <<>>)

\* A paragraph holds the section.
Holds(paragraph, section) ==
    CASE section = "language" -> paragraph # <<>> /\ Head(paragraph) = "IMPORTANT:" /\ result.language_info[2] \in Range(paragraph)
      [] section = "transcript" -> paragraph = <<"Previous Conversation:", "\n">> \o result.prev_context
      [] section = "context" -> "Session Context:" \in Range(paragraph) \/ "User mentioned crops:" \in Range(paragraph)
      [] section = "worker" -> "Worker Analysis:" \in Range(paragraph)
      [] section = "query" -> paragraph = <<"User Query:", " ">> \o result.user_input

\* C19: the prompt is the sections that are present, one paragraph each, in
\* the order language directive, prior transcript, context summary, worker
\* output, user query.
C19_PromptIsSectionsInOrder ==
    (result.op = "build_context_aware_prompt" /\ result.user_input # <<>>) =>
        /\ Len(paragraphs(result.prompt)) = Len(PresentSections)
        /\ \A i \in DOMAIN PresentSections : Holds(paragraphs(result.prompt)[i], PresentSections[i])

\* C20: a section without content leaves nothing in the prompt: neither a
\* paragraph nor its label.
C20_EmptySectionsAreOmitted ==
    result.op = "build_context_aware_prompt" =>
        /\ \A i \in DOMAIN paragraphs(result.prompt) : paragraphs(result.prompt)[i] # <<>>
        /\ "language" \notin Range(PresentSections) => "IMPORTANT:" \notin Range(result.prompt)
        /\ "transcript" \notin Range(PresentSections) => "Previous Conversation:" \notin Range(result.prompt)
        /\ "context" \notin Range(PresentSections) => ("Session Context:" \notin Range(result.prompt) /\ "User mentioned crops:" \notin Range(result.prompt))
        /\ "worker" \notin Range(PresentSections) => "Worker Analysis:" \notin Range(result.prompt)
        /\ ("context" \notin Range(PresentSections) /\ "worker" \notin Range(PresentSections)) => "Current Context:" \notin Range(result.prompt)
        /\ "query" \notin Range(PresentSections) => "User Query:" \notin Range(result.prompt)

\* ------------------------------------------------------------ VectorSpec
\* Documents the index holds at most.
MaxDocs == 3

\* Embeddings, as vectors of non-negative integers; no two are parallel, so
\* equal similarities are equal floating-point numbers too.
Embeddings == {<<1, 0>>, <<0, 1>>, <<1, 1>>}

dot(vec1, vec2) == vec1[1] * vec2[1] + vec1[2] * vec2[2]

\* The cosine of two vectors with non-negative components, as the fraction
\* <<numerator, denominator>> of its square; fractions compare crosswise.
cosine_similarity(vec1, vec2) == <<dot(vec1, vec2) * dot(vec1, vec2), dot(vec1, vec1) * dot(vec2, vec2)>>

similarity_le(x, y) == x[1] * y[2] <= y[1] * x[2]

\* np.argsort with the default kind: the indices in an order of ascending
\* value; the order among equal values is not specified.
argsort(similarities) ==
    {order \in Orders(DOMAIN similarities) :
        \A i, j \in DOMAIN order : i < j => similarity_le(similarities[order[i]], similarities[order[j]])}

\* order[-top_k:]: a start of -0 is the start of the array.
top_slice(order, top_k) ==
    LET start == IF top_k = 0 \/ top_k >= Len(order) THEN 0 ELSE Len(order) - top_k
    IN  SubSeq(order, start + 1, Len(order))

reversed(seq) == [i \in DOMAIN seq |-> seq[Len(seq) + 1 - i]]

\* order: the outcome of np.argsort.
search(db, query_embedding, top_k, order) ==
    IF db.embeddings = <<>> THEN <<>>
    ELSE LET similarities == [i \in DOMAIN db.embeddings |-> cosine_similarity(query_embedding, db.embeddings[i])]
             top_indices == reversed(top_slice(order, top_k))
         IN  [i \in DOMAIN top_indices |->
                 [id |-> db.doc_ids[top_indices[i]], content |-> db.documents[top_indices[i]].content,
                  title |-> db.documents[top_indices[i]].title, similarity |-> similarities[top_indices[i]]]]

\* add_documents: doc_ids are numbered from 0 within each call.
add_documents(db, documents, embeddings) ==
    [documents |-> db.documents \o documents,
     embeddings |-> db.embeddings \o embeddings,
     doc_ids |-> db.doc_ids \o [i \in DOMAIN documents |-> <<"doc_", i - 1>>]]

VectorInit ==
    /\ StartFrom(new_process)
    /\ clock = 0
    /\ next_uuid = 1
    /\ result = NoResult
    /\ appended = [sid \in SessionIds |-> <<>>]
    /\ evicted_at = [sid \in SessionIds |-> -1]
    /\ refs = [sid \in SessionIds |-> "none"]
    /\ threads = NoThreads
    /\ session_manager = SessionManager
    /\ vector_db = SimpleVectorDB

\* One call of add_documents with one or two documents; the content of a
\* document is its number in the order of insertion.
AddDocuments ==
    /\ \E n \in 1..2 :
        /\ Len(vector_db.documents) + n <= MaxDocs
        /\ \E embeddings \in [1..n -> Embeddings] :
            vector_db' = add_documents(vector_db, [i \in 1..n |-> [title |-> "title", content |-> Len(vector_db.documents) + i]], embeddings)
    /\ result' = NoResult
    /\ UNCHANGED <<sessions, heap, session_metadata, contexts, files, clock, next_uuid, appended, evicted_at, refs, threads, session_manager>>

Search ==
    /\ \E query_embedding \in Embeddings, top_k \in 0..(MaxDocs + 1) :
        LET similarities == [i \in DOMAIN vector_db.embeddings |-> cosine_similarity(query_embedding, vector_db.embeddings[i])]
        IN  \E order \in argsort(similarities) :
                result' = [op |-> "search", query_embedding |-> query_embedding, top_k |-> top_k,
                           ret |-> search(vector_db, query_embedding, top_k, order)]
    /\ UNCHANGED <<sessions, heap, session_metadata, contexts, files, clock, next_uuid, appended, evicted_at, refs, threads, session_manager, vector_db>>

VectorNext == AddDocuments \/ Search

VectorSpec == VectorInit /\ [][VectorNext]_vars

\* C21: search returns nothing on an empty index, and on any index at most
\* top_k results in an order of non-increasing similarity.
C21_SearchReturnsAtMostK ==
    result.op = "search" =>
        /\ vector_db.embeddings = <<>> => result.ret = <<>>
        /\ Len(result.ret) <= result.top_k
        /\ \A i, j \in DOMAIN result.ret : i < j => similarity_le(result.ret[j].similarity, result.ret[i].similarity)

\* C22: results of equal similarity come in the order they were added, and a
\* document left out has no equal-scored document added after it among the
\* results.
C22_TiesInInsertionOrder ==
    (result.op = "search" /\ result.top_k >= 1) =>
        LET equal(x, y) == similarity_le(x, y) /\ similarity_le(y, x)
            returned == {result.ret[i].content : i \in DOMAIN result.ret}
        IN  /\ \A i, j \in DOMAIN result.ret :
                    (i < j /\ equal(result.ret[i].similarity, result.ret[j].similarity)) => result.ret[i].content < result.ret[j].content
            /\ \A d \in DOMAIN vector_db.documents : \A i \in DOMAIN result.ret :
                    (d \notin returned /\ equal(cosine_similarity(result.query_embedding, vector_db.embeddings[d]), result.ret[i].similarity))
                        => d > result.ret[i].content

\* C23: the response of every request that is answered names a supported
\* language: its code and the name that belongs to the code.
C23_ReplyNamesSupportedLanguage ==
    (result.op = "Analyze" /\ ~result.raised) =>
        /\ result.detected_language_code \in DOMAIN supported_languages
        /\ result.detected_language_name = supported_languages[result.detected_language_code]

\* C24: as long as the metadata record of a session stays in the directory,
\* no call changes its created_at or lowers one of its counters: the session
\* is created once.
C24_CreatedOnce ==
    [][\A sid \in SessionIds :
          LET path == get_metadata_path(sid)
          IN  (files[path].kind = "meta" /\ files'[path].kind = "meta") =>
                  /\ files'[path].meta.created_at = files[path].meta.created_at
                  /\ files'[path].meta.message_count >= files[path].meta.message_count
                  /\ files'[path].meta.user_messages >= files[path].meta.user_messages
                  /\ files'[path].meta.assistant_messages >= files[path].meta.assistant_messages]_vars

\* C25: the artifact of an export of a session with N >= 1 appended messages
\* carries the ID of the session, its N messages in the order they were
\* appended, and statistics with message_count = N.
C25_ExportReproducesSession ==
    (result.op = "export_session_data" /\ appended[result.sid] # <<>> /\ evicted_at[result.sid] = -1) =>
        /\ ~result.ret.none
        /\ result.ret.artifact.session_id = result.sid
        /\ MessageIds(result.ret.artifact.chat_history) = MessageIds(appended[result.sid])
        /\ result.ret.artifact.session_stats.present
        /\ result.ret.artifact.session_stats.session_id = result.sid
        /\ result.ret.artifact.session_stats.message_count = Len(appended[result.sid])

\* C25 witness: an export of a session with three messages on record, made
\* a day after the last of them was appended.
C25_Witness ==
    /\ result.op = "export_session_data"
    /\ ~result.ret.none
    /\ Len(appended[result.sid]) = 3
    /\ Len(result.ret.artifact.chat_history) = 3
    /\ result.ret.artifact.session_stats.message_count = 3
    /\ files[get_chat_log_path(result.sid)].kind = "log"
    /\ heap[result.sid] # <<>>
    /\ next_uuid = 4
    /\ result.ret.artifact.chat_history[3].timestamp # result.ret.artifact.exported_at

\* The sessions that lost a record between the directory f and the current one.
DeletedSince(f) ==
    {sid \in SessionIds : \E path \in {get_chat_log_path(sid), get_metadata_path(sid)} : f[path].kind # "none" /\ files[path].kind = "none"}

\* C26: the number a sweep returns is the number of distinct sessions whose
\* records it deleted; a session that is both aged and in excess counts once.
C26_RemovedCountedOnce ==
    result.op = "cleanup_old_sessions" => result.ret = Cardinality(DeletedSince(result.before))

\* C26 witness: of three stored sessions the oldest was aged and also the one
\* in excess of max_sessions = 2; the sweep removed it and returned 1.
C26_Witness ==
    /\ result.op = "cleanup_old_sessions"
    /\ result.max_age_days = 1
    /\ result.max_sessions = 2
    /\ StoredIn(result.before) = SessionIds
    /\ Cardinality(AgedIn(result.before, result.max_age_days, result.now)) = 1
    /\ AgedIn(result.before, result.max_age_days, result.now) \in OldestIn(result.before, 1)
    /\ DeletedSince(result.before) = AgedIn(result.before, result.max_age_days, result.now)
    /\ result.ret = 1

\* ------------------------------------------------------------ RecoverSpec
\* A process that starts on a directory an earlier process left behind. The
\* earlier process appended n messages to the session; the directory holds
\* nothing of it, both records, or the message log alone: add_message writes
\* the log last (line 110), after a sweep on another thread may have removed
\* both records.
recorded_session(sid, n, t) ==
    LET RECURSIVE after(_)
        after(k) == IF k = 0 THEN new_process ELSE add_message(after(k - 1), sid, IF k % 2 = 1 THEN "User" ELSE "Assistant", <<"q">>, [i \in 1..6 |-> t], 0 - k)
    IN  [path \in {get_chat_log_path(sid), get_metadata_path(sid)} |-> after(n).files[path]]

log_only_session(sid, n, t) ==
    [path \in {get_chat_log_path(sid), get_metadata_path(sid)} |-> IF path = get_chat_log_path(sid) THEN recorded_session(sid, n, t)[path] ELSE NoFile]

RecoverInit ==
    /\ sessions = [sid \in SessionIds |-> 0]
    /\ heap = [sid \in SessionIds |-> <<>>]
    /\ session_metadata = [sid \in SessionIds |-> NoMeta]
    /\ contexts = [sid \in SessionIds |-> EmptyDict]
    /\ \E shape \in [CoreIds -> {"absent", "recorded", "log_only"}], n \in [CoreIds -> 1..2] :
        files = [path \in Paths |->
                    LET sid == CHOOSE x \in SessionIds : path \in {get_chat_log_path(x), get_metadata_path(x)}
                    IN  IF sid \notin CoreIds THEN NoFile
                        ELSE IF shape[sid] = "recorded" THEN recorded_session(sid, n[sid], 0)[path]
                        ELSE IF shape[sid] = "log_only" THEN log_only_session(sid, n[sid], 0)[path]
                        ELSE NoFile]
    /\ clock = 0
    /\ next_uuid = 1
    /\ result = NoResult
    /\ appended = [sid \in SessionIds |-> <<>>]
    /\ evicted_at = [sid \in SessionIds |-> -1]
    /\ refs = [sid \in SessionIds |-> "none"]
    /\ threads = NoThreads
    /\ session_manager = SessionManager
    /\ vector_db = SimpleVectorDB

RecoverNext ==
    \/ \E sid \in CoreIds, role \in Roles : AddMessage(sid, role)
    \/ \E sid \in CoreIds : GetHistory(sid)
    \/ \E sid \in CoreIds : GetSessionStats(sid)
    \/ Tick
    \/ Restart

RecoverSpec == RecoverInit /\ [][RecoverNext]_vars

\* C27: for every session whose message log is on disk, with or without its
\* metadata record, once the process has loaded the transcript and appended
\* to it, the message count of the session is the length of the transcript.
C27_CountFollowsLog ==
    \A sid \in SessionIds :
        (sessions[sid] # 0 /\ appended[sid] # <<>> /\ exists(store, get_chat_log_path(sid))) =>
            /\ StatsOf(sid).present
            /\ StatsOf(sid).message_count = Len(HistoryOf(sid))

\* ---------------------------------------------------------- IsolationSpec
\* One process on an empty directory serving a session and the session
\* whose ID is that ID followed by "_metadata", besides a third session.
IsolationIds == {<<Names[1]>>, <<Names[1], "_metadata">>, <<Names[2]>>}

IsolationPaths == {get_chat_log_path(sid) : sid \in IsolationIds} \cup {get_metadata_path(sid) : sid \in IsolationIds}

IsolationInit ==
    /\ sessions = [sid \in IsolationIds |-> 0]
    /\ heap = [sid \in IsolationIds |-> <<>>]
    /\ session_metadata = [sid \in IsolationIds |-> NoMeta]
    /\ contexts = [sid \in IsolationIds |-> EmptyDict]
    /\ files = [path \in IsolationPaths |-> NoFile]
    /\ clock = 0
    /\ next_uuid = 1
    /\ result = NoResult
    /\ appended = [sid \in IsolationIds |-> <<>>]
    /\ evicted_at = [sid \in IsolationIds |-> -1]
    /\ refs = [sid \in IsolationIds |-> "none"]
    /\ threads = NoThreads
    /\ session_manager = SessionManager
    /\ vector_db = SimpleVectorDB

IsolationNext ==
    \/ \E sid \in IsolationIds, role \in Roles : AddMessage(sid, role)
    \/ \E sid \in IsolationIds : GetHistory(sid)
    \/ Tick

IsolationSpec == IsolationInit /\ [][IsolationNext]_vars

\* The session keeps its own records: its transcript was not read from a
\* record of another kind, and once it has messages its log holds them and
\* its metadata record names it.
KeepsOwnRecords(sid) ==
    /\ sessions[sid] # -1
    /\ appended[sid] # <<>> =>
        /\ files[get_chat_log_path(sid)].kind = "log"
        /\ MessageIds(files[get_chat_log_path(sid)].log) = MessageIds(appended[sid])
        /\ files[get_metadata_path(sid)].kind = "meta"
        /\ files[get_metadata_path(sid)].meta.session_id = sid

\* C28: of sessions with distinct IDs, one of them the other followed by
\* "_metadata" included, no operation on one overwrites or reads a record of
\* the other: every session keeps its own records.
C28_SessionsAreIsolated ==
    \A sid \in DOMAIN sessions : KeepsOwnRecords(sid)

\* The sessions get_all_session_stats lists on the directory f, and the stats
\* it returns for one of them.
ListedIn(f) ==
    LET s == [store EXCEPT !.files = f]
    IN  UNION {{stats.session_id : stats \in Range(get_all_session_stats(s, listing))} : listing \in Orders(metadata_files(s))}

ListedStats(f, sid) ==
    LET s == [store EXCEPT !.files = f]
        all == get_all_session_stats(s, CHOOSE listing \in Orders(metadata_files(s)) : TRUE)
    IN  all[CHOOSE i \in DOMAIN all : all[i].session_id = sid]

\* C29: a sweep covers every session get_all_session_stats lists: a listed
\* session last active more than max_age_days ago is not listed after the
\* sweep, and after the sweep at most max_sessions sessions are listed.
C29_SweepCoversListedSessions ==
    result.op = "cleanup_old_sessions" =>
        /\ \A sid \in ListedIn(result.before) :
            fromisoformat(ListedStats(result.before, sid).last_activity) < result.now - result.max_age_days => sid \notin ListedIn(files)
        /\ Cardinality(ListedIn(files)) <= result.max_sessions

\* C30: a sweep of the worker that raises does not end the recurring sweep:
\* the worker is still alive, and unless it is told to stop a later sweep
\* runs or is attempted.
C30_FailedSweepIsNotTheLast ==
    /\ [](result.failed => is_alive)
    /\ [](result.failed => <>(session_manager.stop_cleanup \/ (~result.failed /\ <>(result.swept \/ result.failed))))
====
